---- MODULE Spec2Model ----
(***************************************************************************)
(* Idempotent activities (analyze, search, generate, update, notify) and   *)
(* the ticket-resolution workflow processTicket of obelisk-demo.           *)
(*                                                                         *)
(* JavaScript strings are TLC strings; where the code looks inside a       *)
(* string (includes, length, split, toLowerCase) the model goes through    *)
(* CharTable, the character sequence of every string it computes on.       *)
(* Time is counted in ticks of 100 ms.  similarityScore is counted in      *)
(* tenths (0.3 is 3, 0.8 is 8, 1.0 is 10).                                 *)
(***************************************************************************)
EXTENDS Integers, Sequences, FiniteSets, TLC

\* ------------------------------------------------------------------ bounds
MaxCalls == 2
MaxTime == 2
MaxExecutions == 2

\* ----------------------------------------------------------------- strings
CharTable ==
    ("urgent" :> <<"u","r","g","e","n","t">>)
    @@ ("critical" :> <<"c","r","i","t","i","c","a","l">>)
    @@ ("broken" :> <<"b","r","o","k","e","n">>)
    @@ ("thank" :> <<"t","h","a","n","k">>)
    @@ ("great" :> <<"g","r","e","a","t">>)
    @@ ("excellent" :> <<"e","x","c","e","l","l","e","n","t">>)
    @@ ("asap" :> <<"a","s","a","p">>)
    @@ ("immediately" :> <<"i","m","m","e","d","i","a","t","e","l","y">>)
    @@ ("important" :> <<"i","m","p","o","r","t","a","n","t">>)
    @@ ("soon" :> <<"s","o","o","n">>)
    @@ ("when possible" :> <<"w","h","e","n"," ","p","o","s","s","i","b","l","e">>)
    @@ ("no rush" :> <<"n","o"," ","r","u","s","h">>)
    @@ ("login" :> <<"l","o","g","i","n">>)
    @@ ("password" :> <<"p","a","s","s","w","o","r","d">>)
    @@ ("access" :> <<"a","c","c","e","s","s">>)
    @@ ("payment" :> <<"p","a","y","m","e","n","t">>)
    @@ ("billing" :> <<"b","i","l","l","i","n","g">>)
    @@ ("invoice" :> <<"i","n","v","o","i","c","e">>)
    @@ ("bug" :> <<"b","u","g">>)
    @@ ("error" :> <<"e","r","r","o","r">>)
    @@ ("crash" :> <<"c","r","a","s","h">>)
    @@ ("feature" :> <<"f","e","a","t","u","r","e">>)
    @@ ("request" :> <<"r","e","q","u","e","s","t">>)
    @@ ("enhancement" :> <<"e","n","h","a","n","c","e","m","e","n","t">>)
    @@ ("reset password" :> <<"r","e","s","e","t"," ","p","a","s","s","w","o","r","d">>)
    @@ ("refund" :> <<"r","e","f","u","n","d">>)
    @@ ("cancel" :> <<"c","a","n","c","e","l">>)
    @@ ("how to" :> <<"h","o","w"," ","t","o">>)
    @@ ("how do i" :> <<"h","o","w"," ","d","o"," ","i">>)
    @@ ("not working" :> <<"n","o","t"," ","w","o","r","k","i","n","g">>)
    @@ ("doesn't work" :> <<"d","o","e","s","n","'","t"," ","w","o","r","k">>)
    @@ ("urgent: cannot reset password" :> <<"u","r","g","e","n","t",":"," ","c","a","n","n","o","t"," ","r","e","s","e","t"," ","p","a","s","s","w","o","r","d">>)
    @@ ("feature request: dark mode" :> <<"f","e","a","t","u","r","e"," ","r","e","q","u","e","s","t",":"," ","d","a","r","k"," ","m","o","d","e">>)
    @@ ("Feature request: dark mode" :> <<"F","e","a","t","u","r","e"," ","r","e","q","u","e","s","t",":"," ","d","a","r","k"," ","m","o","d","e">>)
    @@ ("My invoice is wrong, this is important" :> <<"M","y"," ","i","n","v","o","i","c","e"," ","i","s"," ","w","r","o","n","g",","," ","t","h","i","s"," ","i","s"," ","i","m","p","o","r","t","a","n","t">>)
    @@ ("Thank you, great service" :> <<"T","h","a","n","k"," ","y","o","u",","," ","g","r","e","a","t"," ","s","e","r","v","i","c","e">>)
    @@ ("reset-password" :> <<"r","e","s","e","t","-","p","a","s","s","w","o","r","d">>)
    @@ ("general-inquiry" :> <<"g","e","n","e","r","a","l","-","i","n","q","u","i","r","y">>)
    @@ ("request-refund" :> <<"r","e","q","u","e","s","t","-","r","e","f","u","n","d">>)
    @@ ("cancel-subscription" :> <<"c","a","n","c","e","l","-","s","u","b","s","c","r","i","p","t","i","o","n">>)
    @@ ("how-to-question" :> <<"h","o","w","-","t","o","-","q","u","e","s","t","i","o","n">>)
    @@ ("report-issue" :> <<"r","e","p","o","r","t","-","i","s","s","u","e">>)
    @@ ("unknown" :> <<"u","n","k","n","o","w","n">>)
    @@ ("feature request" :> <<"f","e","a","t","u","r","e"," ","r","e","q","u","e","s","t">>)
    @@ ("How to reset your password" :> <<"H","o","w"," ","t","o"," ","r","e","s","e","t"," ","y","o","u","r"," ","p","a","s","s","w","o","r","d">>)
    @@ ("To reset your password, go to the login page and click \"Forgot Password\". Enter your email and follow the instructions sent to you." :> <<"T","o"," ","r","e","s","e","t"," ","y","o","u","r"," ","p","a","s","s","w","o","r","d",","," ","g","o"," ","t","o"," ","t","h","e"," ","l","o","g","i","n"," ","p","a","g","e"," ","a","n","d"," ","c","l","i","c","k"," ","\"","F","o","r","g","o","t"," ","P","a","s","s","w","o","r","d","\"","."," ","E","n","t","e","r"," ","y","o","u","r"," ","e","m","a","i","l"," ","a","n","d"," ","f","o","l","l","o","w"," ","t","h","e"," ","i","n","s","t","r","u","c","t","i","o","n","s"," ","s","e","n","t"," ","t","o"," ","y","o","u",".">>)
    @@ ("Payment issues and refunds" :> <<"P","a","y","m","e","n","t"," ","i","s","s","u","e","s"," ","a","n","d"," ","r","e","f","u","n","d","s">>)
    @@ ("If you're experiencing payment issues, please check your payment method is valid. For refunds, contact our billing team within 30 days of purchase." :> <<"I","f"," ","y","o","u","'","r","e"," ","e","x","p","e","r","i","e","n","c","i","n","g"," ","p","a","y","m","e","n","t"," ","i","s","s","u","e","s",","," ","p","l","e","a","s","e"," ","c","h","e","c","k"," ","y","o","u","r"," ","p","a","y","m","e","n","t"," ","m","e","t","h","o","d"," ","i","s"," ","v","a","l","i","d","."," ","F","o","r"," ","r","e","f","u","n","d","s",","," ","c","o","n","t","a","c","t"," ","o","u","r"," ","b","i","l","l","i","n","g"," ","t","e","a","m"," ","w","i","t","h","i","n"," ","3","0"," ","d","a","y","s"," ","o","f"," ","p","u","r","c","h","a","s","e",".">>)
    @@ ("Account access problems" :> <<"A","c","c","o","u","n","t"," ","a","c","c","e","s","s"," ","p","r","o","b","l","e","m","s">>)
    @@ ("If you cannot access your account, ensure you're using the correct email address. Try clearing your browser cache or use password reset." :> <<"I","f"," ","y","o","u"," ","c","a","n","n","o","t"," ","a","c","c","e","s","s"," ","y","o","u","r"," ","a","c","c","o","u","n","t",","," ","e","n","s","u","r","e"," ","y","o","u","'","r","e"," ","u","s","i","n","g"," ","t","h","e"," ","c","o","r","r","e","c","t"," ","e","m","a","i","l"," ","a","d","d","r","e","s","s","."," ","T","r","y"," ","c","l","e","a","r","i","n","g"," ","y","o","u","r"," ","b","r","o","w","s","e","r"," ","c","a","c","h","e"," ","o","r"," ","u","s","e"," ","p","a","s","s","w","o","r","d"," ","r","e","s","e","t",".">>)
    @@ ("Feature request process" :> <<"F","e","a","t","u","r","e"," ","r","e","q","u","e","s","t"," ","p","r","o","c","e","s","s">>)
    @@ ("We appreciate feature requests! Submit yours through our feedback form. Popular requests are prioritized in our roadmap." :> <<"W","e"," ","a","p","p","r","e","c","i","a","t","e"," ","f","e","a","t","u","r","e"," ","r","e","q","u","e","s","t","s","!"," ","S","u","b","m","i","t"," ","y","o","u","r","s"," ","t","h","r","o","u","g","h"," ","o","u","r"," ","f","e","e","d","b","a","c","k"," ","f","o","r","m","."," ","P","o","p","u","l","a","r"," ","r","e","q","u","e","s","t","s"," ","a","r","e"," ","p","r","i","o","r","i","t","i","z","e","d"," ","i","n"," ","o","u","r"," ","r","o","a","d","m","a","p",".">>)
    @@ ("Technical issues and bug reports" :> <<"T","e","c","h","n","i","c","a","l"," ","i","s","s","u","e","s"," ","a","n","d"," ","b","u","g"," ","r","e","p","o","r","t","s">>)
    @@ ("For technical issues, please provide: browser version, steps to reproduce, and screenshots. Our team will investigate within 24 hours." :> <<"F","o","r"," ","t","e","c","h","n","i","c","a","l"," ","i","s","s","u","e","s",","," ","p","l","e","a","s","e"," ","p","r","o","v","i","d","e",":"," ","b","r","o","w","s","e","r"," ","v","e","r","s","i","o","n",","," ","s","t","e","p","s"," ","t","o"," ","r","e","p","r","o","d","u","c","e",","," ","a","n","d"," ","s","c","r","e","e","n","s","h","o","t","s","."," ","O","u","r"," ","t","e","a","m"," ","w","i","l","l"," ","i","n","v","e","s","t","i","g","a","t","e"," ","w","i","t","h","i","n"," ","2","4"," ","h","o","u","r","s",".">>)

Chars(s) == CharTable[s]

UpperToLower ==
    ("A" :> "a") @@ ("B" :> "b") @@ ("C" :> "c") @@ ("D" :> "d") @@ ("E" :> "e")
    @@ ("F" :> "f") @@ ("G" :> "g") @@ ("H" :> "h") @@ ("I" :> "i") @@ ("J" :> "j")
    @@ ("K" :> "k") @@ ("L" :> "l") @@ ("M" :> "m") @@ ("N" :> "n") @@ ("O" :> "o")
    @@ ("P" :> "p") @@ ("Q" :> "q") @@ ("R" :> "r") @@ ("S" :> "s") @@ ("T" :> "t")
    @@ ("U" :> "u") @@ ("V" :> "v") @@ ("W" :> "w") @@ ("X" :> "x") @@ ("Y" :> "y")
    @@ ("Z" :> "z")

\* String.prototype.toLowerCase, on a character sequence
toLowerCase(cs) ==
    [i \in 1..Len(cs) |-> IF cs[i] \in DOMAIN UpperToLower THEN UpperToLower[cs[i]] ELSE cs[i]]

\* String.prototype.includes, on character sequences
includes(cs, sub) ==
    \E i \in 0..(Len(cs) - Len(sub)) :
        \A j \in 1..Len(sub) : cs[i + j] = sub[j]

\* ------------------------------------------------------------------ values
\* A value of type T | ObeliskError, told apart as isError does.
Value(v) == [tag |-> "value", value |-> v]
Void == [tag |-> "void"]
ObeliskError(code, message) == [tag |-> "error", code |-> code, message |-> message]
isError(value) == value.tag = "error"

None == [tag |-> "none"]

\* What a catch block sees: an Error with a message, or some other thrown value.
Thrown == {[isErrorObject |-> TRUE, message |-> "service unavailable"],
           [isErrorObject |-> FALSE]}
errorMessage(error, fallback) == IF error.isErrorObject THEN error.message ELSE fallback

\* ---------------------------------------------------------------- analysis
performSimpleAnalysis(ticketText) ==
    LET lowerText == toLowerCase(Chars(ticketText))
        has(w) == includes(lowerText, Chars(w))
        sentiment ==
            IF has("urgent") \/ has("critical") \/ has("broken") THEN "negative"
            ELSE IF has("thank") \/ has("great") \/ has("excellent") THEN "positive"
            ELSE "neutral"
        urgency ==
            IF has("urgent") \/ has("asap") \/ has("immediately") THEN "critical"
            ELSE IF has("important") \/ has("soon") THEN "high"
            ELSE IF has("when possible") \/ has("no rush") THEN "low"
            ELSE "medium"
        category ==
            IF has("login") \/ has("password") \/ has("access") THEN "authentication"
            ELSE IF has("payment") \/ has("billing") \/ has("invoice") THEN "billing"
            ELSE IF has("bug") \/ has("error") \/ has("crash") THEN "technical"
            ELSE IF has("feature") \/ has("request") \/ has("enhancement") THEN "feature-request"
            ELSE "general"
        intent ==
            IF has("reset password") THEN "reset-password"
            ELSE IF has("refund") THEN "request-refund"
            ELSE IF has("cancel") THEN "cancel-subscription"
            ELSE IF has("how to") \/ has("how do i") THEN "how-to-question"
            ELSE IF has("not working") \/ has("doesn't work") THEN "report-issue"
            ELSE "general-inquiry"
    IN [intent |-> intent, sentiment |-> sentiment, urgency |-> urgency, category |-> category]

\* a default classification that asks for attention
\* the intents analyze can return: those of performSimpleAnalysis and the default's
Intents ==
    {"reset-password", "request-refund", "cancel-subscription", "how-to-question",
     "report-issue", "general-inquiry", "unknown"}

defaultAnalysis_High ==
    [intent |-> "unknown", sentiment |-> "neutral", urgency |-> "high", category |-> "general"]

defaultAnalysis ==
    [intent |-> "unknown", sentiment |-> "neutral", urgency |-> "medium", category |-> "general"]

\* ------------------------------------------------------------------ search
KNOWLEDGE_BASE ==
    << [id |-> "kb-001", title |-> "How to reset your password",
        content |-> "To reset your password, go to the login page and click \"Forgot Password\". Enter your email and follow the instructions sent to you.",
        similarityScore |-> 0],
       [id |-> "kb-002", title |-> "Payment issues and refunds",
        content |-> "If you're experiencing payment issues, please check your payment method is valid. For refunds, contact our billing team within 30 days of purchase.",
        similarityScore |-> 0],
       [id |-> "kb-003", title |-> "Account access problems",
        content |-> "If you cannot access your account, ensure you're using the correct email address. Try clearing your browser cache or use password reset.",
        similarityScore |-> 0],
       [id |-> "kb-004", title |-> "Feature request process",
        content |-> "We appreciate feature requests! Submit yours through our feedback form. Popular requests are prioritized in our roadmap.",
        similarityScore |-> 0],
       [id |-> "kb-005", title |-> "Technical issues and bug reports",
        content |-> "For technical issues, please provide: browser version, steps to reproduce, and screenshots. Our team will investigate within 24 hours.",
        similarityScore |-> 0] >>

\* a split that also breaks words at hyphens
WhiteSpace_WithHyphen == {" ", "\t", "\n", "\r", "-"}

WhiteSpace == {" ", "\t", "\n", "\r"}

\* String.prototype.split(/\s+/), on a character sequence
RECURSIVE splitGo(_, _, _, _)
splitGo(cs, i, cur, acc) ==
    IF i > Len(cs) THEN Append(acc, cur)
    ELSE IF cs[i] \in WhiteSpace
         THEN IF i > 1 /\ cs[i - 1] \in WhiteSpace
              THEN splitGo(cs, i + 1, cur, acc)
              ELSE splitGo(cs, i + 1, <<>>, Append(acc, cur))
         ELSE splitGo(cs, i + 1, Append(cur, cs[i]), acc)
splitWhitespace(cs) == splitGo(cs, 1, <<>>, <<>>)

\* Scores in tenths, as the code adds them: 0.3 a word, 0.5 the title.
WordScore == 3
TitleBoost == 5
ScoreCap == 10
MinimumThreshold == 1
MinWordLength == 3

Min(a, b) == IF a < b THEN a ELSE b
Max(a, b) == IF a > b THEN a ELSE b

\* Array.prototype.sort((a, b) => b.similarityScore - a.similarityScore): stable
RECURSIVE insertByScore(_, _)
insertByScore(sorted, e) ==
    IF sorted = <<>> THEN <<e>>
    ELSE IF Head(sorted).similarityScore >= e.similarityScore
         THEN <<Head(sorted)>> \o insertByScore(Tail(sorted), e)
         ELSE <<e>> \o sorted
RECURSIVE sortByScore(_)
sortByScore(entries) ==
    IF entries = <<>> THEN <<>>
    ELSE insertByScore(sortByScore(SubSeq(entries, 1, Len(entries) - 1)),
                       entries[Len(entries)])

\* Array.prototype.slice(0, end)
slice(entries, end) ==
    LET n == Len(entries)
        to == IF end < 0 THEN Max(n + end, 0) ELSE Min(end, n)
    IN SubSeq(entries, 1, to)

\* a score that is not capped
scoreEntry_Uncapped(entry, lowerQuery, queryWords) ==
    LET entryText == toLowerCase(Chars(entry.title) \o <<" ">> \o Chars(entry.content))
        matching == {i \in 1..Len(queryWords) :
                        /\ Len(queryWords[i]) >= MinWordLength
                        /\ includes(entryText, queryWords[i])}
        words == WordScore * Cardinality(matching)
        score == IF includes(toLowerCase(Chars(entry.title)), lowerQuery)
                 THEN words + TitleBoost ELSE words
    IN [entry EXCEPT !.similarityScore = score]

scoreEntry(entry, lowerQuery, queryWords) ==
    LET entryText == toLowerCase(Chars(entry.title) \o <<" ">> \o Chars(entry.content))
        matching == {i \in 1..Len(queryWords) :
                        /\ Len(queryWords[i]) >= MinWordLength
                        /\ includes(entryText, queryWords[i])}
        words == WordScore * Cardinality(matching)
        score == IF includes(toLowerCase(Chars(entry.title)), lowerQuery)
                 THEN words + TitleBoost ELSE words
    IN [entry EXCEPT !.similarityScore = Min(score, ScoreCap)]

performSimpleSearch(query, maxResults) ==
    LET lowerQuery == toLowerCase(Chars(query))
        queryWords == splitWhitespace(lowerQuery)
        scoredEntries == [i \in 1..Len(KNOWLEDGE_BASE) |->
                            scoreEntry(KNOWLEDGE_BASE[i], lowerQuery, queryWords)]
        kept == SelectSeq(scoredEntries, LAMBDA e : e.similarityScore > MinimumThreshold)
    IN slice(sortByScore(kept), maxResults)

\* ---------------------------------------------------------------- generate
\* A JSON text is the member list of an object, or a text JSON.parse rejects.
JSONstringify(analysis) ==
    [json |-> "object",
     members |-> << <<"intent", analysis.intent>>, <<"sentiment", analysis.sentiment>>,
                    <<"urgency", analysis.urgency>>, <<"category", analysis.category>> >>]
InvalidJson == [json |-> "invalid", members |-> <<>>]

\* JSON.parse: the object's properties; a later member overrides an earlier one.
RECURSIVE parseMembers(_)
parseMembers(members) ==
    IF members = <<>> THEN <<>>
    ELSE LET m == members[Len(members)]
         IN (m[1] :> m[2]) @@ parseMembers(SubSeq(members, 1, Len(members) - 1))
JSONparses(text) == text.json = "object"
JSONparse(text) == parseMembers(text.members)
property(object, name) == IF name \in DOMAIN object THEN object[name] ELSE "undefined"

\* a fallback that says nothing
GenericResponse_Empty == ""

GenericResponse ==
    "Thank you for contacting support. We have received your ticket and will respond within 24 hours."

ContextMinLength == 20
ContextLimit == 300

\* String.prototype.substring(0, end); every context of the model is within the limit
substring0(s, end) == IF Len(Chars(s)) <= end THEN s ELSE CHOOSE p \in {} : TRUE

generateTemplateResponse(context, analysisJson) ==
    IF ~JSONparses(analysisJson) THEN GenericResponse
    ELSE
    LET analysis == JSONparse(analysisJson)
        urgency == property(analysis, "urgency")
        category == property(analysis, "category")
        greeting == "Thank you for reaching out to our support team.\n\n"
        urgent == IF urgency = "critical" \/ urgency = "high"
                  THEN "We understand this is urgent and we're prioritizing your request.\n\n"
                  ELSE ""
        byCategory ==
            CASE category = "authentication" ->
                    "For account access issues, please try the following:\n"
                    \o "1. Use the \"Forgot Password\" link on the login page\n"
                    \o "2. Check your email for the reset link\n"
                    \o "3. If you don't receive the email, check your spam folder\n\n"
              [] category = "billing" ->
                    "For billing inquiries, our billing team will review your request.\n"
                    \o "Please allow 1-2 business days for a detailed response.\n\n"
              [] category = "technical" ->
                    "We've received your technical issue report.\n"
                    \o "Our engineering team will investigate and respond within 24 hours.\n\n"
              [] category = "feature-request" ->
                    "Thank you for your feature suggestion!\n"
                    \o "We've added it to our product roadmap for consideration.\n\n"
              [] OTHER ->
                    "We've reviewed your inquiry and will provide a detailed response soon.\n\n"
        withContext ==
            IF context # "" /\ Len(Chars(context)) > ContextMinLength
            THEN "In the meantime, you may find this information helpful:\n\n"
                 \o substring0(context, ContextLimit) \o "\n\n"
            ELSE ""
        closing == "If you have any additional questions, please don't hesitate to reach out.\n\n"
                   \o "Best regards,\n" \o "Support Team"
    IN greeting \o urgent \o byCategory \o withContext \o closing

\* ------------------------------------------------------------------- state
VARIABLES
    analysisCache,      \* analyze-ticket.ts: idempotencyKey -> AnalysisResult
    searchCache,        \* search-kb.ts: idempotencyKey -> KnowledgeEntry[]
    responseCache,      \* generate: idempotencyKey -> string
    processedUpdates,   \* update-ticket.ts: idempotencyKey -> {ticketId, status}
    ticketStatuses,     \* update-ticket.ts: ticketId -> TicketStatus
    sentNotifications,  \* notify-team.ts: idempotencyKey -> {message, channel, timestamp}
    inFlight,           \* notify calls suspended at their await
    now,                \* Date.now(), in ticks
    calls,              \* activity calls made so far
    runs,               \* the executions of processTicket
    effects,            \* history: activity -> key -> times the effect was invoked
    first,              \* history: activity -> key -> the first call that returned
    recordedWith,       \* history: activity -> key -> parameters of the call recorded under the key
    last                \* history: the call that returned last

stores == <<analysisCache, searchCache, responseCache, processedUpdates,
            ticketStatuses, sentNotifications>>
history == <<effects, first, recordedWith, last>>
vars == <<stores, inFlight, now, calls, history, runs>>

Activities == {"analyze", "search", "generate", "update", "notify"}

\* Inputs of the direct activity calls
Keys == {"k1", "k2"}
Texts == {"urgent: cannot reset password", "Feature request: dark mode"}
SearchInputs == {[query |-> "password", maxResults |-> 3],
                 [query |-> "reset-password", maxResults |-> 3]}
GenerateInputs ==
    {[context |-> "urgent: cannot reset password", analysis |-> JSONstringify(defaultAnalysis)],
     [context |-> "password", analysis |-> InvalidJson]}
UpdateInputs == {[ticketId |-> "T1", status |-> "in-progress"],
                 [ticketId |-> "T1", status |-> "resolved"],
                 [ticketId |-> "T2", status |-> "in-progress"]}
NotifyInputs == {[message |-> "m1", channel |-> "support-alerts"],
                 [message |-> "m2", channel |-> "support-alerts"],
                 [message |-> "m1", channel |-> "support-team"]}

\* setTimeout(resolve, 100): one tick
SendDelay == 1

\* processTicket is executed, and then replayed with the same arguments
Executions == 1..MaxExecutions
IdleRun == [pc |-> "idle", ticketId |-> "", ticketText |-> "", startTime |-> 0,
            analysis |-> None, kbEntries |-> <<>>, responseText |-> "",
            trace |-> <<>>, returned |-> None]

Count(f, k) == IF k \in DOMAIN f THEN f[k] ELSE 0
\* Map.prototype.set
MapSet(map, k, v) == (k :> v) @@ map

Init ==
    /\ analysisCache = <<>>
    /\ searchCache = <<>>
    /\ responseCache = <<>>
    /\ processedUpdates = <<>>
    /\ ticketStatuses = <<>>
    /\ sentNotifications = <<>>
    /\ inFlight = {}
    /\ now = 0
    /\ calls = 0
    /\ effects = [a \in Activities |-> <<>>]
    /\ first = [a \in Activities |-> <<>>]
    /\ recordedWith = [a \in Activities |-> <<>>]
    /\ last = None
    /\ runs = [e \in Executions |-> IdleRun]

\* ---------------------------------------------------------------- history
RecordedParams(a, k) == IF k \in DOMAIN recordedWith[a] THEN recordedWith[a][k] ELSE None

\* A call of activity a returns result r.  sequential: a call with this key had
\* already returned when this one began; recorded: the parameters recorded under
\* the key when this one began (None when there was no record).
Returns(a, k, p, r, invoked, sequential, recorded) ==
    /\ last' = [activity |-> a, key |-> k, params |-> p, result |-> r, invoked |-> invoked,
                sequential |-> sequential, recorded |-> recorded]
    /\ first' = IF k \in DOMAIN first[a] THEN first
                ELSE [first EXCEPT ![a] = MapSet(@, k, [params |-> p, result |-> r])]
Invokes(a, k) == effects' = [effects EXCEPT ![a] = MapSet(@, k, Count(@, k) + 1)]
Records(a, k, p) == recordedWith' = [recordedWith EXCEPT ![a] = MapSet(@, k, p)]

IdempotencyMismatch(idempotencyKey) ==
    ObeliskError("IDEMPOTENCY_MISMATCH",
                 "Idempotency key " \o idempotencyKey \o " was used with different parameters")

\* ----------------------------------------------------------------- analyze
analyze(ticketText, idempotencyKey) ==
    LET p == [ticketText |-> ticketText]
        seq == idempotencyKey \in DOMAIN first["analyze"]
        rec == RecordedParams("analyze", idempotencyKey)
    IN
    /\ calls < MaxCalls
    /\ calls' = calls + 1
    /\ IF idempotencyKey \in DOMAIN analysisCache
       THEN /\ Returns("analyze", idempotencyKey, p, Value(analysisCache[idempotencyKey]),
                       FALSE, seq, rec)
            /\ UNCHANGED <<analysisCache, effects, recordedWith>>
       ELSE \E threw \in BOOLEAN :
            LET analysis == IF threw THEN defaultAnalysis
                            ELSE performSimpleAnalysis(ticketText)
            IN /\ analysisCache' = MapSet(analysisCache, idempotencyKey, analysis)
               /\ Invokes("analyze", idempotencyKey)
               /\ Records("analyze", idempotencyKey, p)
               /\ Returns("analyze", idempotencyKey, p, Value(analysis), TRUE, seq, rec)
    /\ UNCHANGED <<searchCache, responseCache, processedUpdates, ticketStatuses,
                   sentNotifications, inFlight, now, runs>>

\* ------------------------------------------------------------------ search
search(query, maxResults, idempotencyKey) ==
    LET p == [query |-> query, maxResults |-> maxResults]
        seq == idempotencyKey \in DOMAIN first["search"]
        rec == RecordedParams("search", idempotencyKey)
    IN
    /\ calls < MaxCalls
    /\ calls' = calls + 1
    /\ IF idempotencyKey \in DOMAIN searchCache
       THEN /\ Returns("search", idempotencyKey, p, Value(searchCache[idempotencyKey]),
                       FALSE, seq, rec)
            /\ UNCHANGED <<searchCache, effects, recordedWith>>
       ELSE \E threw \in BOOLEAN :
            LET results == IF threw THEN <<>> ELSE performSimpleSearch(query, maxResults)
            IN /\ searchCache' = MapSet(searchCache, idempotencyKey, results)
               /\ Invokes("search", idempotencyKey)
               /\ Records("search", idempotencyKey, p)
               /\ Returns("search", idempotencyKey, p, Value(results), TRUE, seq, rec)
    /\ UNCHANGED <<analysisCache, responseCache, processedUpdates, ticketStatuses,
                   sentNotifications, inFlight, now, runs>>

\* ---------------------------------------------------------------- generate
generate(context, analysis, idempotencyKey) ==
    LET p == [context |-> context, analysis |-> analysis]
        seq == idempotencyKey \in DOMAIN first["generate"]
        rec == RecordedParams("generate", idempotencyKey)
    IN
    /\ calls < MaxCalls
    /\ calls' = calls + 1
    /\ IF idempotencyKey \in DOMAIN responseCache
       THEN /\ Returns("generate", idempotencyKey, p, Value(responseCache[idempotencyKey]),
                       FALSE, seq, rec)
            /\ UNCHANGED <<responseCache, effects, recordedWith>>
       ELSE \E threw \in BOOLEAN :
            LET response == IF threw THEN GenericResponse
                            ELSE generateTemplateResponse(context, analysis)
            IN /\ responseCache' = MapSet(responseCache, idempotencyKey, response)
               /\ Invokes("generate", idempotencyKey)
               /\ Records("generate", idempotencyKey, p)
               /\ Returns("generate", idempotencyKey, p, Value(response), TRUE, seq, rec)
    /\ UNCHANGED <<analysisCache, searchCache, processedUpdates, ticketStatuses,
                   sentNotifications, inFlight, now, runs>>

\* ------------------------------------------------------------------ update
\* a check that forgets the status
updateMatches_TicketOnly(previous, ticketId, status) ==
    previous.ticketId = ticketId

updateMatches(previous, ticketId, status) ==
    ~(previous.ticketId # ticketId \/ previous.status # status)

update(ticketId, status, idempotencyKey) ==
    LET p == [ticketId |-> ticketId, status |-> status]
        seq == idempotencyKey \in DOMAIN first["update"]
        rec == RecordedParams("update", idempotencyKey)
    IN
    /\ calls < MaxCalls
    /\ calls' = calls + 1
    /\ IF idempotencyKey \in DOMAIN processedUpdates
       THEN /\ Returns("update", idempotencyKey, p,
                       IF updateMatches(processedUpdates[idempotencyKey], ticketId, status)
                       THEN Void ELSE IdempotencyMismatch(idempotencyKey),
                       FALSE, seq, rec)
            /\ UNCHANGED <<processedUpdates, ticketStatuses, effects, recordedWith>>
       ELSE \/ /\ ticketStatuses' = MapSet(ticketStatuses, ticketId, status)
               /\ processedUpdates' = MapSet(processedUpdates, idempotencyKey, p)
               /\ Invokes("update", idempotencyKey)
               /\ Records("update", idempotencyKey, p)
               /\ Returns("update", idempotencyKey, p, Void, TRUE, seq, rec)
            \/ \E error \in Thrown :
               /\ Invokes("update", idempotencyKey)
               /\ Returns("update", idempotencyKey, p,
                          ObeliskError("UPDATE_ERROR",
                                       errorMessage(error, "Unknown error updating ticket")),
                          TRUE, seq, rec)
               /\ UNCHANGED <<processedUpdates, ticketStatuses, recordedWith>>
    /\ UNCHANGED <<analysisCache, searchCache, responseCache, sentNotifications, inFlight,
                   now, runs>>

\* ------------------------------------------------------------------ notify
\* a check that forgets the message
notifyMatches_ChannelOnly(previous, message, channel) ==
    previous.channel = channel

notifyMatches(previous, message, channel) ==
    ~(previous.message # message \/ previous.channel # channel)

\* notify up to its await: a cache hit returns, a miss starts the send and suspends
notify(message, channel, idempotencyKey) ==
    LET p == [message |-> message, channel |-> channel]
        seq == idempotencyKey \in DOMAIN first["notify"]
        rec == RecordedParams("notify", idempotencyKey)
    IN
    /\ calls < MaxCalls
    /\ calls' = calls + 1
    /\ IF idempotencyKey \in DOMAIN sentNotifications
       THEN /\ Returns("notify", idempotencyKey, p,
                       IF notifyMatches(sentNotifications[idempotencyKey], message, channel)
                       THEN Void ELSE IdempotencyMismatch(idempotencyKey),
                       FALSE, seq, rec)
            /\ UNCHANGED <<inFlight, effects>>
       ELSE /\ now + SendDelay <= MaxTime
            /\ inFlight' = inFlight \cup
                   {[id |-> calls + 1, idempotencyKey |-> idempotencyKey,
                     notification |-> [message |-> message, channel |-> channel,
                                       timestamp |-> now],
                     sequential |-> seq, recorded |-> rec]}
            /\ Invokes("notify", idempotencyKey)
            /\ UNCHANGED <<first, last>>
    /\ UNCHANGED <<stores, recordedWith, now, runs>>

callParams(call) == [message |-> call.notification.message, channel |-> call.notification.channel]

\* the awaited send resolves: the notification is recorded and the call returns
notifySent(call) ==
    /\ call \in inFlight
    /\ now' = Max(now, call.notification.timestamp + SendDelay)
    /\ inFlight' = inFlight \ {call}
    /\ sentNotifications' = MapSet(sentNotifications, call.idempotencyKey, call.notification)
    /\ Records("notify", call.idempotencyKey, callParams(call))
    /\ Returns("notify", call.idempotencyKey, callParams(call), Void, TRUE,
               call.sequential, call.recorded)
    /\ UNCHANGED <<analysisCache, searchCache, responseCache, processedUpdates,
                   ticketStatuses, calls, effects, runs>>

\* the awaited send rejects: the catch block returns the error, nothing is recorded
notifyFailed(call) ==
    /\ call \in inFlight
    /\ inFlight' = inFlight \ {call}
    /\ \E error \in Thrown :
       Returns("notify", call.idempotencyKey, callParams(call),
               ObeliskError("NOTIFICATION_ERROR",
                            errorMessage(error, "Unknown error sending notification")),
               TRUE, call.sequential, call.recorded)
    /\ UNCHANGED <<stores, now, calls, effects, recordedWith, runs>>

Next ==
    \/ \E t \in Texts, k \in Keys : analyze(t, k)
    \/ \E i \in SearchInputs, k \in Keys : search(i.query, i.maxResults, k)
    \/ \E i \in GenerateInputs, k \in Keys : generate(i.context, i.analysis, k)
    \/ \E i \in UpdateInputs, k \in Keys : update(i.ticketId, i.status, k)
    \/ \E i \in NotifyInputs, k \in Keys : notify(i.message, i.channel, k)
    \/ \E call \in inFlight : notifySent(call)
    \/ \E call \in inFlight : notifyFailed(call)

Spec == Init /\ [][Next]_vars

\* ---------------------------------------------------- the search, called alone
\* Calls of search under one key with queries and limits of every kind: a limit
\* below zero, zero, below and above the number of matches.
Queries == {"password", "reset password", "feature request", "reset-password",
            "general-inquiry", "unknown", "payment", "access", "request",
            "Feature request: dark mode"}
Limits == -1..5

SearchNext == \E query \in Queries, maxResults \in Limits : search(query, maxResults, "k1")

SearchSpec == Init /\ [][SearchNext]_vars

\* ------------------------------------------------- calls the host cancels
\* The host may give up a call that is suspended at its await (a timeout): the
\* rest of notify never runs.  update has no await: once called it runs to its
\* return.  The cancelled call is noted with the number of sends (attempts) and of
\* calls made so far.
Cancelled(attempts, made) == [tag |-> "cancelled", attempts |-> attempts, calls |-> made]
isCancelled(v) == v.tag = "cancelled"

\* a cancellation that records the notification all the same
notifyCancelled_Recorded(call) ==
    /\ call \in inFlight
    /\ inFlight' = inFlight \ {call}
    /\ sentNotifications' = MapSet(sentNotifications, call.idempotencyKey, call.notification)
    /\ last' = [activity |-> "notify", key |-> call.idempotencyKey, params |-> callParams(call),
                result |-> Cancelled(Count(effects["notify"], call.idempotencyKey), calls),
                invoked |-> TRUE, sequential |-> call.sequential, recorded |-> call.recorded]
    /\ UNCHANGED <<analysisCache, searchCache, responseCache, processedUpdates,
                   ticketStatuses, now, calls, effects, first, recordedWith, runs>>

\* the awaited send is abandoned: nothing after the await runs
notifyCancelled(call) ==
    /\ call \in inFlight
    /\ inFlight' = inFlight \ {call}
    /\ last' = [activity |-> "notify", key |-> call.idempotencyKey, params |-> callParams(call),
                result |-> Cancelled(Count(effects["notify"], call.idempotencyKey), calls),
                invoked |-> TRUE, sequential |-> call.sequential, recorded |-> call.recorded]
    /\ UNCHANGED <<stores, now, calls, effects, first, recordedWith, runs>>

CancelNext ==
    \/ \E i \in UpdateInputs, k \in Keys : update(i.ticketId, i.status, k)
    \/ \E i \in NotifyInputs, k \in Keys : notify(i.message, i.channel, k)
    \/ \E call \in inFlight : notifySent(call)
    \/ \E call \in inFlight : notifyFailed(call)
    \/ \E call \in inFlight : notifyCancelled(call)

CancelSpec == Init /\ [][CancelNext]_vars

\* ================================================================ workflow
\* The activities of ticket-resolution.ts are declared functions that the runtime
\* injects; a call returns a value of the declared type.  analyze, search and
\* generate are deterministic: a call repeated with the same arguments and key is
\* answered as before.  Whether an update or a send succeeds is the environment's.
ActivityFailed == ObeliskError("ACTIVITY_FAILED", "activity execution failed")

aiAnalyze(ticketText, idempotencyKey) ==
    {Value(performSimpleAnalysis(ticketText)), Value(defaultAnalysis),
     Value([intent |-> "general-inquiry", sentiment |-> "positive",
            urgency |-> "critical", category |-> "general"]),
     ActivityFailed}

kbSearch(query, maxResults, idempotencyKey) ==
    {Value(<<>>),
     Value(<<[KNOWLEDGE_BASE[1] EXCEPT !.similarityScore = 8]>>),
     Value(<<[KNOWLEDGE_BASE[1] EXCEPT !.similarityScore = 9],
             [KNOWLEDGE_BASE[3] EXCEPT !.similarityScore = 3]>>),
     ActivityFailed}

generateResponse(context, analysis, idempotencyKey) ==
    {Value(generateTemplateResponse(context, analysis)), ActivityFailed}

updateTicket(ticketId, status, idempotencyKey) ==
    {Void, ObeliskError("UPDATE_ERROR", "service unavailable"),
     IdempotencyMismatch(idempotencyKey)}

notifyTeam(message, channel, idempotencyKey) ==
    {Void, ObeliskError("NOTIFICATION_ERROR", "service unavailable"),
     IdempotencyMismatch(idempotencyKey)}

Deterministic == {"aiAnalyze", "kbSearch", "generateResponse"}

Traced == UNION {{runs[e].trace[i] : i \in 1..Len(runs[e].trace)} : e \in Executions}

\* The results a call can return now
Answers(activity, args, idempotencyKey, declared) ==
    LET before == {c \in Traced : /\ c.activity = activity
                                  /\ c.args = args
                                  /\ c.idempotencyKey = idempotencyKey}
    IN IF activity \in Deterministic /\ before # {}
       THEN {c.result : c \in before}
       ELSE declared

\* Arguments of processTicket
Tickets == {[ticketId |-> "T1", ticketText |-> "urgent: cannot reset password"],
            [ticketId |-> "T2", ticketText |-> "My invoice is wrong, this is important"],
            [ticketId |-> "T1", ticketText |-> "Feature request: dark mode"]}

\* Idempotency keys
analysisKey(ticketId) == "analyze-" \o ticketId
\* a key minted from the clock
notifyCriticalKey_Clock(ticketId) == "notify-critical-" \o ticketId \o "-" \o ToString(now)

notifyCriticalKey(ticketId) == "notify-critical-" \o ticketId
notifyEscalateKey(ticketId) == "notify-escalate-" \o ticketId
notifyReviewKey(ticketId) == "notify-review-" \o ticketId
updateProgressKey(ticketId) == "update-progress-" \o ticketId
updateResolvedKey(ticketId) == "update-resolved-" \o ticketId
searchKey(ticketId) == "search-" \o ticketId
generateCriticalKey(ticketId) == "generate-critical-" \o ticketId
generateResolveKey(ticketId) == "generate-resolve-" \o ticketId
generateAutoKey(ticketId) == "generate-auto-" \o ticketId

\* kbEntries[0].similarityScore > 0.8, in tenths
HighConfidence == 8

Logged(run, activity, args, idempotencyKey, result) ==
    [run EXCEPT !.trace = Append(@, [activity |-> activity, args |-> args,
                                     idempotencyKey |-> idempotencyKey,
                                     result |-> result])]

\* return: the locals are gone
Return(run, value) ==
    [run EXCEPT !.pc = "done", !.returned = value, !.startTime = 0, !.analysis = None,
                !.kbEntries = <<>>, !.responseText = ""]

Resolution(run, status, response, clock) ==
    [tag |-> "value",
     value |-> [ticketId |-> run.ticketId, status |-> status, response |-> response,
                executionTimeMs |-> clock - run.startTime]]

\* a context that never uses the knowledge base
bestContext_TicketText(run) == run.ticketText

bestContext(run) ==
    IF Len(run.kbEntries) > 0 THEN run.kbEntries[1].content ELSE run.ticketText

\* ---- what processTicket does with each result
\* routing that looks at the sentiment before the urgency
afterAnalyze_SentimentFirst(run, analysisResult) ==
    IF isError(analysisResult) THEN Return(run, analysisResult)
    ELSE LET analysis == analysisResult.value
         IN [run EXCEPT !.analysis = analysis,
                        !.pc = IF analysis.sentiment = "positive" THEN "normal.kbSearch"
                               ELSE IF analysis.urgency = "critical" THEN "critical.notifyTeam"
                               ELSE IF analysis.sentiment = "negative" \/ analysis.urgency = "high"
                                    THEN "elevated.kbSearch"
                                    ELSE "normal.kbSearch"]

\* an analysis error replaced by the default classification
afterAnalyze_DefaultOnError(run, analysisResult) ==
    LET analysis == IF isError(analysisResult) THEN defaultAnalysis ELSE analysisResult.value
    IN [run EXCEPT !.analysis = analysis,
                   !.pc = IF analysis.urgency = "critical" THEN "critical.notifyTeam"
                          ELSE IF analysis.sentiment = "negative" \/ analysis.urgency = "high"
                               THEN "elevated.kbSearch"
                               ELSE "normal.kbSearch"]

afterAnalyze(run, analysisResult) ==
    IF isError(analysisResult) THEN Return(run, analysisResult)
    ELSE LET analysis == analysisResult.value
         IN [run EXCEPT !.analysis = analysis,
                        !.pc = IF analysis.urgency = "critical" THEN "critical.notifyTeam"
                               ELSE IF analysis.sentiment = "negative" \/ analysis.urgency = "high"
                                    THEN "elevated.kbSearch"
                                    ELSE "normal.kbSearch"]

\* a notification failure that ends the workflow
afterCriticalNotify_Abort(run, notifyResult) ==
    IF isError(notifyResult) THEN Return(run, notifyResult)
    ELSE [run EXCEPT !.pc = "critical.updateTicket"]

afterCriticalNotify(run, notifyResult) ==
    [run EXCEPT !.pc = "critical.updateTicket"]

afterCriticalUpdate(run, updateResult) ==
    IF isError(updateResult) THEN Return(run, updateResult)
    ELSE [run EXCEPT !.pc = "critical.kbSearch"]

afterCriticalSearch(run, kbResult) ==
    [run EXCEPT !.kbEntries = IF isError(kbResult) THEN <<>> ELSE kbResult.value,
                !.pc = "critical.generateResponse"]

\* a generation error that ends the workflow
afterCriticalGenerate_Propagate(run, responseResult, clock) ==
    IF isError(responseResult) THEN Return(run, responseResult)
    ELSE Return(run, Resolution(run, "in-progress", responseResult.value, clock))

afterCriticalGenerate(run, responseResult, clock) ==
    LET responseText == IF isError(responseResult)
                        THEN "Your ticket is being reviewed by our team."
                        ELSE responseResult.value
    IN Return(run, Resolution(run, "in-progress", responseText, clock))

\* a match at the threshold counted as high confidence
afterElevatedSearch_AtLeast(run, kbResult) ==
    IF isError(kbResult) THEN [run EXCEPT !.pc = "escalate.notifyTeam"]
    ELSE LET kbEntries == kbResult.value
         IN IF Len(kbEntries) > 0 /\ kbEntries[1].similarityScore >= HighConfidence
            THEN [run EXCEPT !.kbEntries = kbEntries, !.pc = "resolve.generateResponse"]
            ELSE [run EXCEPT !.kbEntries = kbEntries, !.pc = "review.notifyTeam"]

afterElevatedSearch(run, kbResult) ==
    IF isError(kbResult) THEN [run EXCEPT !.pc = "escalate.notifyTeam"]
    ELSE LET kbEntries == kbResult.value
         IN IF Len(kbEntries) > 0 /\ kbEntries[1].similarityScore > HighConfidence
            THEN [run EXCEPT !.kbEntries = kbEntries, !.pc = "resolve.generateResponse"]
            ELSE [run EXCEPT !.kbEntries = kbEntries, !.pc = "review.notifyTeam"]

afterEscalateNotify(run, notifyResult) ==
    [run EXCEPT !.pc = "escalate.updateTicket"]

\* an escalation that closes the ticket
afterEscalateUpdate_Resolved(run, updateResult, clock) ==
    Return(run, Resolution(run, "resolved", "Escalated to support team", clock))

afterEscalateUpdate(run, updateResult, clock) ==
    Return(run, Resolution(run, "in-progress", "Escalated to support team", clock))

afterResolveGenerate(run, responseResult) ==
    [run EXCEPT !.responseText = IF isError(responseResult)
                                 THEN run.kbEntries[1].content
                                 ELSE responseResult.value,
                !.pc = "resolve.updateTicket"]

\* an auto-resolution that leaves the ticket in progress
afterResolveUpdate_InProgress(run, updateResult, clock) ==
    Return(run, Resolution(run, "in-progress", run.responseText, clock))

afterResolveUpdate(run, updateResult, clock) ==
    Return(run, Resolution(run, "resolved", run.responseText, clock))

afterReviewNotify(run, notifyResult) ==
    [run EXCEPT !.pc = "review.updateTicket"]

\* a review that answers with the escalation text of the failed search
afterReviewUpdate_EscalationText(run, updateResult, clock) ==
    Return(run, Resolution(run, "in-progress", "Escalated to support team", clock))

afterReviewUpdate(run, updateResult, clock) ==
    Return(run, Resolution(run, "in-progress",
                           "Escalated to support team for personalized assistance", clock))

\* a search error that ends the workflow
afterNormalSearch_Propagate(run, kbResult) ==
    IF isError(kbResult) THEN Return(run, kbResult)
    ELSE [run EXCEPT !.kbEntries = kbResult.value, !.pc = "normal.generateResponse"]

afterNormalSearch(run, kbResult) ==
    [run EXCEPT !.kbEntries = IF isError(kbResult) THEN <<>> ELSE kbResult.value,
                !.pc = "normal.generateResponse"]

afterNormalGenerate(run, responseResult) ==
    [run EXCEPT !.responseText =
                    IF isError(responseResult)
                    THEN "Thank you for contacting support. We will respond within 24 hours."
                    ELSE responseResult.value,
                !.pc = "normal.updateTicket"]

\* a normal path that leaves the ticket in progress
afterNormalUpdate_InProgress(run, updateResult, clock) ==
    Return(run, Resolution(run, "in-progress", run.responseText, clock))

afterNormalUpdate(run, updateResult, clock) ==
    Return(run, Resolution(run, "resolved", run.responseText, clock))

\* ---- the steps of an execution: one activity call each, with what processTicket
\* does with its result.  Date.now() is read at entry and when the Resolution is
\* built; the time that passed while the activities ran is taken at that read.
WorkflowFrame == UNCHANGED <<stores, inFlight, calls, history>>

processTicket(e, ticketId, ticketText) ==
    /\ runs[e].pc = "idle"
    /\ e > 1 => /\ runs[e - 1].pc = "done"
                /\ runs[e - 1].ticketId = ticketId
                /\ runs[e - 1].ticketText = ticketText
    /\ runs' = [runs EXCEPT ![e] = [IdleRun EXCEPT !.pc = "aiAnalyze",
                                                   !.ticketId = ticketId,
                                                   !.ticketText = ticketText,
                                                   !.startTime = now]]
    /\ UNCHANGED now
    /\ WorkflowFrame

analyzeTicket(e) ==
    LET run == runs[e]
        key == analysisKey(run.ticketId)
        args == [ticketText |-> run.ticketText]
    IN /\ run.pc = "aiAnalyze"
       /\ \E result \in Answers("aiAnalyze", args, key, aiAnalyze(run.ticketText, key)) :
            runs' = [runs EXCEPT ![e] =
                       afterAnalyze(Logged(run, "aiAnalyze", args, key, result), result)]
       /\ UNCHANGED now
       /\ WorkflowFrame

criticalNotify(e) ==
    LET run == runs[e]
        key == notifyCriticalKey(run.ticketId)
        message == "URGENT: Ticket " \o run.ticketId
                   \o " requires immediate attention - " \o run.analysis.category
        args == [message |-> message, channel |-> "support-alerts"]
    IN /\ run.pc = "critical.notifyTeam"
       /\ \E result \in Answers("notifyTeam", args, key, notifyTeam(message, "support-alerts", key)) :
            runs' = [runs EXCEPT ![e] =
                       afterCriticalNotify(Logged(run, "notifyTeam", args, key, result), result)]
       /\ UNCHANGED now
       /\ WorkflowFrame

criticalUpdate(e) ==
    LET run == runs[e]
        key == updateProgressKey(run.ticketId)
        args == [ticketId |-> run.ticketId, status |-> "in-progress"]
    IN /\ run.pc = "critical.updateTicket"
       /\ \E result \in Answers("updateTicket", args, key, updateTicket(run.ticketId, "in-progress", key)) :
            runs' = [runs EXCEPT ![e] =
                       afterCriticalUpdate(Logged(run, "updateTicket", args, key, result), result)]
       /\ UNCHANGED now
       /\ WorkflowFrame

criticalSearch(e) ==
    LET run == runs[e]
        key == searchKey(run.ticketId)
        args == [query |-> run.analysis.intent, maxResults |-> 3]
    IN /\ run.pc = "critical.kbSearch"
       /\ \E result \in Answers("kbSearch", args, key, kbSearch(run.analysis.intent, 3, key)) :
            runs' = [runs EXCEPT ![e] =
                       afterCriticalSearch(Logged(run, "kbSearch", args, key, result), result)]
       /\ UNCHANGED now
       /\ WorkflowFrame

criticalGenerate(e) ==
    LET run == runs[e]
        key == generateCriticalKey(run.ticketId)
        args == [context |-> bestContext(run), analysis |-> JSONstringify(run.analysis)]
    IN /\ run.pc = "critical.generateResponse"
       /\ \E result \in Answers("generateResponse", args, key, generateResponse(args.context, args.analysis, key)) :
          \E clock \in now..MaxTime :
            /\ now' = clock
            /\ runs' = [runs EXCEPT ![e] =
                          afterCriticalGenerate(Logged(run, "generateResponse", args, key, result), result, clock)]
       /\ WorkflowFrame

elevatedSearch(e) ==
    LET run == runs[e]
        key == searchKey(run.ticketId)
        args == [query |-> run.analysis.intent, maxResults |-> 5]
    IN /\ run.pc = "elevated.kbSearch"
       /\ \E result \in Answers("kbSearch", args, key, kbSearch(run.analysis.intent, 5, key)) :
            runs' = [runs EXCEPT ![e] =
                       afterElevatedSearch(Logged(run, "kbSearch", args, key, result), result)]
       /\ UNCHANGED now
       /\ WorkflowFrame

escalateNotify(e) ==
    LET run == runs[e]
        key == notifyEscalateKey(run.ticketId)
        message == "Ticket " \o run.ticketId \o " needs human review (KB search failed)"
        args == [message |-> message, channel |-> "support-team"]
    IN /\ run.pc = "escalate.notifyTeam"
       /\ \E result \in Answers("notifyTeam", args, key, notifyTeam(message, "support-team", key)) :
            runs' = [runs EXCEPT ![e] =
                       afterEscalateNotify(Logged(run, "notifyTeam", args, key, result), result)]
       /\ UNCHANGED now
       /\ WorkflowFrame

escalateUpdate(e) ==
    LET run == runs[e]
        key == updateProgressKey(run.ticketId)
        args == [ticketId |-> run.ticketId, status |-> "in-progress"]
    IN /\ run.pc = "escalate.updateTicket"
       /\ \E result \in Answers("updateTicket", args, key, updateTicket(run.ticketId, "in-progress", key)) :
          \E clock \in now..MaxTime :
            /\ now' = clock
            /\ runs' = [runs EXCEPT ![e] =
                          afterEscalateUpdate(Logged(run, "updateTicket", args, key, result), result, clock)]
       /\ WorkflowFrame

resolveGenerate(e) ==
    LET run == runs[e]
        key == generateResolveKey(run.ticketId)
        args == [context |-> run.kbEntries[1].content, analysis |-> JSONstringify(run.analysis)]
    IN /\ run.pc = "resolve.generateResponse"
       /\ \E result \in Answers("generateResponse", args, key, generateResponse(args.context, args.analysis, key)) :
            runs' = [runs EXCEPT ![e] =
                       afterResolveGenerate(Logged(run, "generateResponse", args, key, result), result)]
       /\ UNCHANGED now
       /\ WorkflowFrame

resolveUpdate(e) ==
    LET run == runs[e]
        key == updateResolvedKey(run.ticketId)
        args == [ticketId |-> run.ticketId, status |-> "resolved"]
    IN /\ run.pc = "resolve.updateTicket"
       /\ \E result \in Answers("updateTicket", args, key, updateTicket(run.ticketId, "resolved", key)) :
          \E clock \in now..MaxTime :
            /\ now' = clock
            /\ runs' = [runs EXCEPT ![e] =
                          afterResolveUpdate(Logged(run, "updateTicket", args, key, result), result, clock)]
       /\ WorkflowFrame

reviewNotify(e) ==
    LET run == runs[e]
        key == notifyReviewKey(run.ticketId)
        message == "Ticket " \o run.ticketId \o " needs human review - " \o run.analysis.category
        args == [message |-> message, channel |-> "support-team"]
    IN /\ run.pc = "review.notifyTeam"
       /\ \E result \in Answers("notifyTeam", args, key, notifyTeam(message, "support-team", key)) :
            runs' = [runs EXCEPT ![e] =
                       afterReviewNotify(Logged(run, "notifyTeam", args, key, result), result)]
       /\ UNCHANGED now
       /\ WorkflowFrame

reviewUpdate(e) ==
    LET run == runs[e]
        key == updateProgressKey(run.ticketId)
        args == [ticketId |-> run.ticketId, status |-> "in-progress"]
    IN /\ run.pc = "review.updateTicket"
       /\ \E result \in Answers("updateTicket", args, key, updateTicket(run.ticketId, "in-progress", key)) :
          \E clock \in now..MaxTime :
            /\ now' = clock
            /\ runs' = [runs EXCEPT ![e] =
                          afterReviewUpdate(Logged(run, "updateTicket", args, key, result), result, clock)]
       /\ WorkflowFrame

normalSearch(e) ==
    LET run == runs[e]
        key == searchKey(run.ticketId)
        args == [query |-> run.analysis.intent, maxResults |-> 3]
    IN /\ run.pc = "normal.kbSearch"
       /\ \E result \in Answers("kbSearch", args, key, kbSearch(run.analysis.intent, 3, key)) :
            runs' = [runs EXCEPT ![e] =
                       afterNormalSearch(Logged(run, "kbSearch", args, key, result), result)]
       /\ UNCHANGED now
       /\ WorkflowFrame

normalGenerate(e) ==
    LET run == runs[e]
        key == generateAutoKey(run.ticketId)
        args == [context |-> bestContext(run), analysis |-> JSONstringify(run.analysis)]
    IN /\ run.pc = "normal.generateResponse"
       /\ \E result \in Answers("generateResponse", args, key, generateResponse(args.context, args.analysis, key)) :
            runs' = [runs EXCEPT ![e] =
                       afterNormalGenerate(Logged(run, "generateResponse", args, key, result), result)]
       /\ UNCHANGED now
       /\ WorkflowFrame

normalUpdate(e) ==
    LET run == runs[e]
        key == updateResolvedKey(run.ticketId)
        args == [ticketId |-> run.ticketId, status |-> "resolved"]
    IN /\ run.pc = "normal.updateTicket"
       /\ \E result \in Answers("updateTicket", args, key, updateTicket(run.ticketId, "resolved", key)) :
          \E clock \in now..MaxTime :
            /\ now' = clock
            /\ runs' = [runs EXCEPT ![e] =
                          afterNormalUpdate(Logged(run, "updateTicket", args, key, result), result, clock)]
       /\ WorkflowFrame

WorkflowNext ==
    \E e \in Executions :
        \/ \E t \in Tickets : processTicket(e, t.ticketId, t.ticketText)
        \/ analyzeTicket(e)
        \/ criticalNotify(e)
        \/ criticalUpdate(e)
        \/ criticalSearch(e)
        \/ criticalGenerate(e)
        \/ elevatedSearch(e)
        \/ escalateNotify(e)
        \/ escalateUpdate(e)
        \/ resolveGenerate(e)
        \/ resolveUpdate(e)
        \/ reviewNotify(e)
        \/ reviewUpdate(e)
        \/ normalSearch(e)
        \/ normalGenerate(e)
        \/ normalUpdate(e)

WorkflowSpec == Init /\ [][WorkflowNext]_vars

\* ---- one execution, which gets its next step whenever it has one: the runtime
\* answers every activity call
FirstExecutionNext ==
    \/ \E t \in Tickets : processTicket(1, t.ticketId, t.ticketText)
    \/ analyzeTicket(1)
    \/ criticalNotify(1)
    \/ criticalUpdate(1)
    \/ criticalSearch(1)
    \/ criticalGenerate(1)
    \/ elevatedSearch(1)
    \/ escalateNotify(1)
    \/ escalateUpdate(1)
    \/ resolveGenerate(1)
    \/ resolveUpdate(1)
    \/ reviewNotify(1)
    \/ reviewUpdate(1)
    \/ normalSearch(1)
    \/ normalGenerate(1)
    \/ normalUpdate(1)

WorkflowLive == Init /\ [][FirstExecutionNext]_vars /\ WF_vars(FirstExecutionNext)

\* ============================================== the workflow on the activities
\* processTicket wired to the shipped activities: a call of a declared activity is
\* a call of the exported function on the module-level stores.  The workflow waits
\* for each result, so a send is over when the next step begins.

\* What a call can return, with the store it leaves and whether the effect ran
analyzeOutcomes(ticketText, idempotencyKey) ==
    IF idempotencyKey \in DOMAIN analysisCache
    THEN {[result |-> Value(analysisCache[idempotencyKey]), store |-> analysisCache,
           invoked |-> FALSE]}
    ELSE {[result |-> Value(analysis),
           store |-> MapSet(analysisCache, idempotencyKey, analysis), invoked |-> TRUE] :
             analysis \in {performSimpleAnalysis(ticketText), defaultAnalysis}}

searchOutcomes(query, maxResults, idempotencyKey) ==
    IF idempotencyKey \in DOMAIN searchCache
    THEN {[result |-> Value(searchCache[idempotencyKey]), store |-> searchCache,
           invoked |-> FALSE]}
    ELSE {[result |-> Value(results),
           store |-> MapSet(searchCache, idempotencyKey, results), invoked |-> TRUE] :
             results \in {performSimpleSearch(query, maxResults), <<>>}}

generateOutcomes(context, analysis, idempotencyKey) ==
    IF idempotencyKey \in DOMAIN responseCache
    THEN {[result |-> Value(responseCache[idempotencyKey]), store |-> responseCache,
           invoked |-> FALSE]}
    ELSE {[result |-> Value(response),
           store |-> MapSet(responseCache, idempotencyKey, response), invoked |-> TRUE] :
             response \in {generateTemplateResponse(context, analysis), GenericResponse}}

\* a replay that writes the status again
updateOutcomes_ReplayWrites(ticketId, status, idempotencyKey) ==
    IF idempotencyKey \in DOMAIN processedUpdates
    THEN {[result |-> IF updateMatches(processedUpdates[idempotencyKey], ticketId, status)
                      THEN Void ELSE IdempotencyMismatch(idempotencyKey),
           store |-> processedUpdates,
           statuses |-> IF updateMatches(processedUpdates[idempotencyKey], ticketId, status)
                        THEN MapSet(ticketStatuses, ticketId, status) ELSE ticketStatuses,
           invoked |-> FALSE]}
    ELSE {[result |-> Void,
           store |-> MapSet(processedUpdates, idempotencyKey,
                            [ticketId |-> ticketId, status |-> status]),
           statuses |-> MapSet(ticketStatuses, ticketId, status), invoked |-> TRUE]}
         \cup
         {[result |-> ObeliskError("UPDATE_ERROR",
                                   errorMessage(error, "Unknown error updating ticket")),
           store |-> processedUpdates, statuses |-> ticketStatuses, invoked |-> TRUE] :
             error \in Thrown}

updateOutcomes(ticketId, status, idempotencyKey) ==
    IF idempotencyKey \in DOMAIN processedUpdates
    THEN {[result |-> IF updateMatches(processedUpdates[idempotencyKey], ticketId, status)
                      THEN Void ELSE IdempotencyMismatch(idempotencyKey),
           store |-> processedUpdates, statuses |-> ticketStatuses, invoked |-> FALSE]}
    ELSE {[result |-> Void,
           store |-> MapSet(processedUpdates, idempotencyKey,
                            [ticketId |-> ticketId, status |-> status]),
           statuses |-> MapSet(ticketStatuses, ticketId, status), invoked |-> TRUE]}
         \cup
         {[result |-> ObeliskError("UPDATE_ERROR",
                                   errorMessage(error, "Unknown error updating ticket")),
           store |-> processedUpdates, statuses |-> ticketStatuses, invoked |-> TRUE] :
             error \in Thrown}

\* a notify that does not look at its records
notifyOutcomes_NoCache(message, channel, idempotencyKey) ==
    {[result |-> Void,
      store |-> MapSet(sentNotifications, idempotencyKey,
                       [message |-> message, channel |-> channel, timestamp |-> now]),
      delay |-> SendDelay, invoked |-> TRUE]}
    \cup
    {[result |-> ObeliskError("NOTIFICATION_ERROR",
                              errorMessage(error, "Unknown error sending notification")),
      store |-> sentNotifications, delay |-> 0, invoked |-> TRUE] :
        error \in Thrown}

notifyOutcomes(message, channel, idempotencyKey) ==
    IF idempotencyKey \in DOMAIN sentNotifications
    THEN {[result |-> IF notifyMatches(sentNotifications[idempotencyKey], message, channel)
                      THEN Void ELSE IdempotencyMismatch(idempotencyKey),
           store |-> sentNotifications, delay |-> 0, invoked |-> FALSE]}
    ELSE {[result |-> Void,
           store |-> MapSet(sentNotifications, idempotencyKey,
                            [message |-> message, channel |-> channel, timestamp |-> now]),
           delay |-> SendDelay, invoked |-> TRUE]}
         \cup
         {[result |-> ObeliskError("NOTIFICATION_ERROR",
                                   errorMessage(error, "Unknown error sending notification")),
           store |-> sentNotifications, delay |-> 0, invoked |-> TRUE] :
             error \in Thrown}

Ran(activity, idempotencyKey, outcome) ==
    effects' = IF outcome.invoked
               THEN [effects EXCEPT ![activity] =
                        MapSet(@, idempotencyKey, Count(@, idempotencyKey) + 1)]
               ELSE effects

\* ---- the call sites of processTicket, by the step an execution is at
SearchSteps == {"critical.kbSearch", "elevated.kbSearch", "normal.kbSearch"}
GenerateSteps == {"critical.generateResponse", "resolve.generateResponse",
                  "normal.generateResponse"}
UpdateSteps == {"critical.updateTicket", "escalate.updateTicket", "resolve.updateTicket",
                "review.updateTicket", "normal.updateTicket"}
NotifySteps == {"critical.notifyTeam", "escalate.notifyTeam", "review.notifyTeam"}

searchLimit(run) == IF run.pc = "elevated.kbSearch" THEN 5 ELSE 3
afterSearch(run, kbResult) ==
    CASE run.pc = "critical.kbSearch" -> afterCriticalSearch(run, kbResult)
      [] run.pc = "elevated.kbSearch" -> afterElevatedSearch(run, kbResult)
      [] run.pc = "normal.kbSearch" -> afterNormalSearch(run, kbResult)

generateKey(run) ==
    CASE run.pc = "critical.generateResponse" -> generateCriticalKey(run.ticketId)
      [] run.pc = "resolve.generateResponse" -> generateResolveKey(run.ticketId)
      [] run.pc = "normal.generateResponse" -> generateAutoKey(run.ticketId)
generateContext(run) ==
    IF run.pc = "resolve.generateResponse" THEN run.kbEntries[1].content ELSE bestContext(run)
afterGenerate(run, responseResult, clock) ==
    CASE run.pc = "critical.generateResponse" -> afterCriticalGenerate(run, responseResult, clock)
      [] run.pc = "resolve.generateResponse" -> afterResolveGenerate(run, responseResult)
      [] run.pc = "normal.generateResponse" -> afterNormalGenerate(run, responseResult)

\* an update that never resolves
updateStatus_InProgress(run) == "in-progress"

updateStatus(run) ==
    IF run.pc \in {"resolve.updateTicket", "normal.updateTicket"} THEN "resolved"
    ELSE "in-progress"
updateKey(run) ==
    IF run.pc \in {"resolve.updateTicket", "normal.updateTicket"}
    THEN updateResolvedKey(run.ticketId) ELSE updateProgressKey(run.ticketId)
afterUpdate(run, updateResult, clock) ==
    CASE run.pc = "critical.updateTicket" -> afterCriticalUpdate(run, updateResult)
      [] run.pc = "escalate.updateTicket" -> afterEscalateUpdate(run, updateResult, clock)
      [] run.pc = "resolve.updateTicket" -> afterResolveUpdate(run, updateResult, clock)
      [] run.pc = "review.updateTicket" -> afterReviewUpdate(run, updateResult, clock)
      [] run.pc = "normal.updateTicket" -> afterNormalUpdate(run, updateResult, clock)

notifyKey(run) ==
    CASE run.pc = "critical.notifyTeam" -> notifyCriticalKey(run.ticketId)
      [] run.pc = "escalate.notifyTeam" -> notifyEscalateKey(run.ticketId)
      [] run.pc = "review.notifyTeam" -> notifyReviewKey(run.ticketId)
notifyMessage(run) ==
    CASE run.pc = "critical.notifyTeam" ->
            "URGENT: Ticket " \o run.ticketId \o " requires immediate attention - "
            \o run.analysis.category
      [] run.pc = "escalate.notifyTeam" ->
            "Ticket " \o run.ticketId \o " needs human review (KB search failed)"
      [] run.pc = "review.notifyTeam" ->
            "Ticket " \o run.ticketId \o " needs human review - " \o run.analysis.category
notifyChannel(run) == IF run.pc = "critical.notifyTeam" THEN "support-alerts" ELSE "support-team"
afterNotify(run, notifyResult) ==
    CASE run.pc = "critical.notifyTeam" -> afterCriticalNotify(run, notifyResult)
      [] run.pc = "escalate.notifyTeam" -> afterEscalateNotify(run, notifyResult)
      [] run.pc = "review.notifyTeam" -> afterReviewNotify(run, notifyResult)

\* ---- the steps of an execution: a call of the activity and what processTicket
\* does with its result
SystemFrame == UNCHANGED <<inFlight, calls, first, recordedWith, last>>

callAnalyze(e) ==
    LET run == runs[e]
        key == analysisKey(run.ticketId)
        args == [ticketText |-> run.ticketText]
    IN /\ run.pc = "aiAnalyze"
       /\ \E outcome \in analyzeOutcomes(run.ticketText, key) :
            /\ analysisCache' = outcome.store
            /\ Ran("analyze", key, outcome)
            /\ runs' = [runs EXCEPT ![e] =
                          afterAnalyze(Logged(run, "aiAnalyze", args, key, outcome.result),
                                       outcome.result)]
       /\ UNCHANGED <<searchCache, responseCache, processedUpdates, ticketStatuses,
                      sentNotifications, now>>
       /\ SystemFrame

callSearch(e) ==
    LET run == runs[e]
        key == searchKey(run.ticketId)
        args == [query |-> run.analysis.intent, maxResults |-> searchLimit(run)]
    IN /\ run.pc \in SearchSteps
       /\ \E outcome \in searchOutcomes(args.query, args.maxResults, key) :
            /\ searchCache' = outcome.store
            /\ Ran("search", key, outcome)
            /\ runs' = [runs EXCEPT ![e] =
                          afterSearch(Logged(run, "kbSearch", args, key, outcome.result),
                                      outcome.result)]
       /\ UNCHANGED <<analysisCache, responseCache, processedUpdates, ticketStatuses,
                      sentNotifications, now>>
       /\ SystemFrame

callGenerate(e) ==
    LET run == runs[e]
        key == generateKey(run)
        args == [context |-> generateContext(run), analysis |-> JSONstringify(run.analysis)]
    IN /\ run.pc \in GenerateSteps
       /\ \E outcome \in generateOutcomes(args.context, args.analysis, key) :
            /\ responseCache' = outcome.store
            /\ Ran("generate", key, outcome)
            /\ runs' = [runs EXCEPT ![e] =
                          afterGenerate(Logged(run, "generateResponse", args, key, outcome.result),
                                        outcome.result, now)]
       /\ UNCHANGED <<analysisCache, searchCache, processedUpdates, ticketStatuses,
                      sentNotifications, now>>
       /\ SystemFrame

callUpdate(e) ==
    LET run == runs[e]
        key == updateKey(run)
        args == [ticketId |-> run.ticketId, status |-> updateStatus(run)]
    IN /\ run.pc \in UpdateSteps
       /\ \E outcome \in updateOutcomes(args.ticketId, args.status, key) :
            /\ processedUpdates' = outcome.store
            /\ ticketStatuses' = outcome.statuses
            /\ Ran("update", key, outcome)
            /\ runs' = [runs EXCEPT ![e] =
                          afterUpdate(Logged(run, "updateTicket", args, key, outcome.result),
                                      outcome.result, now)]
       /\ UNCHANGED <<analysisCache, searchCache, responseCache, sentNotifications, now>>
       /\ SystemFrame

callNotify(e) ==
    LET run == runs[e]
        key == notifyKey(run)
        args == [message |-> notifyMessage(run), channel |-> notifyChannel(run)]
    IN /\ run.pc \in NotifySteps
       /\ \E outcome \in notifyOutcomes(args.message, args.channel, key) :
            /\ now + outcome.delay <= MaxTime
            /\ now' = now + outcome.delay
            /\ sentNotifications' = outcome.store
            /\ Ran("notify", key, outcome)
            /\ runs' = [runs EXCEPT ![e] =
                          afterNotify(Logged(run, "notifyTeam", args, key, outcome.result),
                                      outcome.result)]
       /\ UNCHANGED <<analysisCache, searchCache, responseCache, processedUpdates,
                      ticketStatuses>>
       /\ SystemFrame

\* Tickets of the support queue
SystemTickets ==
    {[ticketId |-> "T-1", ticketText |-> "urgent: cannot reset password"],
     [ticketId |-> "T-2", ticketText |-> "feature request: dark mode"],
     [ticketId |-> "T-3", ticketText |-> "Feature request: dark mode"],
     [ticketId |-> "T-4", ticketText |-> "My invoice is wrong, this is important"]}

SystemNext ==
    \E e \in Executions :
        \/ \E t \in SystemTickets : processTicket(e, t.ticketId, t.ticketText)
        \/ callAnalyze(e)
        \/ callSearch(e)
        \/ callGenerate(e)
        \/ callUpdate(e)
        \/ callNotify(e)

SystemSpec == Init /\ [][SystemNext]_vars

\* --------------------------------- the composed system, with edited tickets
\* processTicket called for the ticket of the last execution after its text was edited
processTicketEdited(e, ticketText) ==
    /\ e > 1
    /\ runs[e].pc = "idle"
    /\ runs[e - 1].pc = "done"
    /\ runs[e - 1].ticketText # ticketText
    /\ runs' = [runs EXCEPT ![e] = [IdleRun EXCEPT !.pc = "aiAnalyze",
                                                   !.ticketId = runs[e - 1].ticketId,
                                                   !.ticketText = ticketText,
                                                   !.startTime = now]]
    /\ UNCHANGED now
    /\ WorkflowFrame

EditedNext ==
    \E e \in Executions :
        \/ \E t \in SystemTickets : processTicket(e, t.ticketId, t.ticketText)
        \/ \E t \in SystemTickets : processTicketEdited(e, t.ticketText)
        \/ callAnalyze(e)
        \/ callSearch(e)
        \/ callGenerate(e)
        \/ callUpdate(e)
        \/ callNotify(e)

EditedSpec == Init /\ [][EditedNext]_vars

\* ------------------------------------------- the ticket store, called alone
\* Any sequence of update calls, and what getStatus answers after each.
getStatus(ticketId) ==
    IF ticketId \in DOMAIN ticketStatuses THEN ticketStatuses[ticketId] ELSE "undefined"

UpdateKeys == {"k1", "k2", "k3"}

updateCall(ticketId, status, idempotencyKey) ==
    /\ \E outcome \in updateOutcomes(ticketId, status, idempotencyKey) :
         /\ processedUpdates' = outcome.store
         /\ ticketStatuses' = outcome.statuses
         /\ last' = [activity |-> "update", key |-> idempotencyKey,
                     params |-> [ticketId |-> ticketId, status |-> status],
                     result |-> outcome.result, invoked |-> outcome.invoked,
                     sequential |-> TRUE,
                     recorded |-> IF idempotencyKey \in DOMAIN processedUpdates
                                  THEN processedUpdates[idempotencyKey] ELSE None]
    /\ UNCHANGED <<analysisCache, searchCache, responseCache, sentNotifications, inFlight,
                   now, calls, effects, first, recordedWith, runs>>

UpdateNext == \E i \in UpdateInputs, k \in UpdateKeys : updateCall(i.ticketId, i.status, k)

UpdateSpec == Init /\ [][UpdateNext]_vars

\* ================================================================== claims
MismatchCodes == {"IDEMPOTENCY_MISMATCH"}
EffectFailureCodes == {"UPDATE_ERROR", "NOTIFICATION_ERROR"}
First(call) == first[call.activity][call.key]

\* C1: a call that comes after an earlier call with the same key has returned, and
\* has the parameters of the first call with that key, does not invoke the effect
\* again and returns what the first call returned.
C1_RepeatedCallSameResult ==
    (last # None /\ last.sequential /\ last.params = First(last).params)
        => (~last.invoked /\ last.result = First(last).result)

RecordedResult(a, k) ==
    CASE a = "analyze" -> Value(analysisCache[k])
      [] a = "search" -> Value(searchCache[k])
      [] a = "generate" -> Value(responseCache[k])

C3_OneEffectInFlightPerKey ==
    \A c1, c2 \in inFlight : c1.idempotencyKey = c2.idempotencyKey => c1 = c2

\* C8: when the first call with a key failed in its effect, a later call with the
\* same key and parameters returns that failure and does not invoke the effect.
C8_FailureIsRecorded ==
    (/\ last # None
     /\ last.activity \in {"update", "notify"}
     /\ last.sequential
     /\ last.params = First(last).params
     /\ isError(First(last).result)
     /\ First(last).result.code \in EffectFailureCodes)
        => (~last.invoked /\ last.result = First(last).result)

\* C9: a record of the update and notify stores, once written, stays under its key
\* with the request parameters it was written with.
C9_RecordsWriteOnce ==
    [][/\ \A k \in DOMAIN processedUpdates :
            /\ k \in DOMAIN processedUpdates'
            /\ processedUpdates'[k].ticketId = processedUpdates[k].ticketId
            /\ processedUpdates'[k].status = processedUpdates[k].status
       /\ \A k \in DOMAIN sentNotifications :
            /\ k \in DOMAIN sentNotifications'
            /\ sentNotifications'[k].message = sentNotifications[k].message
            /\ sentNotifications'[k].channel = sentNotifications[k].channel]_vars

\* ------------------------------------------------------- claims (workflow)
Done(e) == runs[e].pc = "done"
SameArguments(e1, e2) ==
    /\ runs[e1].ticketId = runs[e2].ticketId
    /\ runs[e1].ticketText = runs[e2].ticketText
Positions(e) == 1..Len(runs[e].trace)
CallAt(e, i) == [activity |-> runs[e].trace[i].activity, args |-> runs[e].trace[i].args,
                 idempotencyKey |-> runs[e].trace[i].idempotencyKey]
ResultAt(e, i) == runs[e].trace[i].result
ErrorAt(e, i, codes) == isError(ResultAt(e, i)) /\ ResultAt(e, i).code \in codes

\* C4: an updateTicket call that returns an error is the last call of its execution,
\* and the execution returns that error.
C4_UpdateErrorAborts ==
    \A e \in Executions : \A i \in Positions(e) :
        (runs[e].trace[i].activity = "updateTicket" /\ isError(ResultAt(e, i)))
            => /\ i = Len(runs[e].trace)
               /\ Done(e) => runs[e].returned = ResultAt(e, i)

\* C5: an execution in which an activity call returned IDEMPOTENCY_MISMATCH returns
\* that error.
C5_MismatchPropagates ==
    \A e \in Executions : \A i \in Positions(e) :
        (Done(e) /\ ErrorAt(e, i, MismatchCodes)) => runs[e].returned = ResultAt(e, i)

\* C6: two executions with the same arguments whose activity calls returned the same
\* results return the same value, executionTimeMs included.
C6_IdenticalOutcomes ==
    \A e1, e2 \in Executions :
        (/\ Done(e1) /\ Done(e2) /\ SameArguments(e1, e2)
         /\ Len(runs[e1].trace) = Len(runs[e2].trace)
         /\ \A i \in Positions(e1) : ResultAt(e1, i) = ResultAt(e2, i))
            => runs[e1].returned = runs[e2].returned

KeyPrefixes == {"analyze", "notify-critical", "notify-escalate", "notify-review",
                "update-progress", "update-resolved", "search", "generate-critical",
                "generate-resolve", "generate-auto"}

\* C7: two executions with the same arguments issue the same call (activity,
\* arguments, key) at every position up to which their calls returned the same
\* results, and as many calls when all results are the same; every key is a fixed
\* prefix followed by the ticket id.
C7_ReplaySameCalls ==
    /\ \A e1, e2 \in Executions :
         SameArguments(e1, e2) =>
           /\ \A i \in Positions(e1) \cap Positions(e2) :
                (\A j \in 1..(i - 1) : ResultAt(e1, j) = ResultAt(e2, j))
                    => CallAt(e1, i) = CallAt(e2, i)
           /\ (/\ Done(e1) /\ Done(e2)
               /\ \A i \in Positions(e1) \cap Positions(e2) : ResultAt(e1, i) = ResultAt(e2, i))
                  => Len(runs[e1].trace) = Len(runs[e2].trace)
    /\ \A e \in Executions : \A i \in Positions(e) :
         \E prefix \in KeyPrefixes :
            runs[e].trace[i].idempotencyKey = prefix \o "-" \o runs[e].ticketId

\* a replay that started later than the first execution and made the same five calls
C7_Witness ==
    /\ Done(1) /\ Done(2)
    /\ Len(runs[1].trace) = 5 /\ Len(runs[2].trace) = 5
    /\ \A i \in 1..5 : ResultAt(1, i) = ResultAt(2, i)
    /\ ~isError(runs[1].returned)
    /\ runs[1].returned.value.executionTimeMs > 0

NotifyPositions(e) == {i \in Positions(e) : runs[e].trace[i].activity = "notifyTeam"}
Outcome(e) ==
    IF isError(runs[e].returned) THEN runs[e].returned
    ELSE [status |-> runs[e].returned.value.status,
          response |-> runs[e].returned.value.response]
\* e1's notifyTeam call returned NOTIFICATION_ERROR, e2's succeeded, and every other
\* call returned the same in both
NotifyFailedInFirstOnly(e1, e2) ==
    /\ Done(e1) /\ Done(e2) /\ SameArguments(e1, e2)
    /\ \E i \in NotifyPositions(e1) : ErrorAt(e1, i, {"NOTIFICATION_ERROR"})
    /\ \E i \in NotifyPositions(e2) : ResultAt(e2, i) = Void
    /\ \A i \in Positions(e1) \cap Positions(e2) :
         runs[e1].trace[i].activity # "notifyTeam" => ResultAt(e1, i) = ResultAt(e2, i)

\* C10: an execution whose notifyTeam call returned NOTIFICATION_ERROR makes the same
\* calls and returns the same status and response as the execution in which
\* notifyTeam succeeded.
C10_NotifyFailureIgnored ==
    \A e1, e2 \in Executions :
        NotifyFailedInFirstOnly(e1, e2)
            => /\ Len(runs[e1].trace) = Len(runs[e2].trace)
               /\ \A i \in Positions(e1) : CallAt(e1, i) = CallAt(e2, i)
               /\ Outcome(e1) = Outcome(e2)

C10_Witness ==
    /\ NotifyFailedInFirstOnly(1, 2)
    /\ Len(runs[1].trace) = 5
    /\ ~isError(runs[1].returned)
    /\ runs[1].returned.value.status = "in-progress"

\* --------------------------------------------------------- claims (routing)
\* the classification an execution routed on
Classified(e) == Len(runs[e].trace) > 0 /\ ~isError(ResultAt(e, 1))
Analysis(e) == ResultAt(e, 1).value
Succeeded(e) == Done(e) /\ ~isError(runs[e].returned)
CallsOf(e, activity) == {i \in Positions(e) : runs[e].trace[i].activity = activity}

\* C11: an execution whose classification has urgency critical, whatever the
\* sentiment, calls notifyTeam exactly once when it is done, on the channel
\* 'support-alerts', calls no activity of another path, and returns status
\* in-progress when it returns a Resolution.
C11_CriticalWhateverSentiment ==
    \A e \in Executions :
        (Classified(e) /\ Analysis(e).urgency = "critical")
            => /\ \A i \in CallsOf(e, "notifyTeam") :
                    /\ i = 2
                    /\ runs[e].trace[i].args.channel = "support-alerts"
               /\ Done(e) => Cardinality(CallsOf(e, "notifyTeam")) = 1
               /\ Succeeded(e) => runs[e].returned.value.status = "in-progress"

C11_Witness ==
    /\ Succeeded(1) /\ Succeeded(2)
    /\ runs[1].ticketText = "Feature request: dark mode"
    /\ Analysis(1).urgency = "critical" /\ Analysis(1).sentiment = "positive"
    /\ Cardinality(CallsOf(1, "notifyTeam")) = 1
    /\ runs[1].returned.value.status = "in-progress"

\* the elevated path: urgency not critical, and sentiment negative or urgency high
Elevated(e) ==
    /\ Classified(e)
    /\ Analysis(e).urgency # "critical"
    /\ Analysis(e).sentiment = "negative" \/ Analysis(e).urgency = "high"
Searched(e) == Len(runs[e].trace) >= 2 /\ runs[e].trace[2].activity = "kbSearch"
Matches(e) == ResultAt(e, 2).value
TopScore(e) == Matches(e)[1].similarityScore

\* C12: on the elevated path a search whose top similarityScore is exactly 0.8 is
\* followed by the review notification, never by a generateResponse call, and a
\* Resolution has status in-progress; a generateResponse call on the elevated path
\* follows only a top score above 0.8.
C12_ThresholdIsStrict ==
    \A e \in Executions :
        (Elevated(e) /\ Searched(e))
            => /\ (/\ ~isError(ResultAt(e, 2))
                   /\ Len(Matches(e)) > 0
                   /\ TopScore(e) = HighConfidence)
                     => /\ CallsOf(e, "generateResponse") = {}
                        /\ Len(runs[e].trace) >= 3
                             => runs[e].trace[3].idempotencyKey = notifyReviewKey(runs[e].ticketId)
                        /\ Succeeded(e) => runs[e].returned.value.status = "in-progress"
               /\ CallsOf(e, "generateResponse") # {}
                     => /\ ~isError(ResultAt(e, 2))
                        /\ Len(Matches(e)) > 0
                        /\ TopScore(e) > HighConfidence

C12_Witness ==
    /\ Elevated(1) /\ Searched(1) /\ Succeeded(1)
    /\ ~isError(ResultAt(1, 2))
    /\ Len(Matches(1)) > 0 /\ TopScore(1) = 8
    /\ Len(runs[1].trace) = 4
    /\ runs[1].returned.value.status = "in-progress"

\* ------------------------------------------------- claims (activities, II)
\* C13: a call of analyze never returns an error; what it returns is recorded under
\* the key; a call that ran the analysis returns the classification of the text or,
\* when the analysis threw, the default classification with category general,
\* urgency medium and sentiment neutral.
C13_AnalyzeNeverFails ==
    (last # None /\ last.activity = "analyze")
        => /\ ~isError(last.result)
           /\ last.key \in DOMAIN analysisCache
           /\ analysisCache[last.key] = last.result.value
           /\ last.invoked
                => \/ last.result.value = performSimpleAnalysis(last.params.ticketText)
                   \/ /\ last.result.value.intent = "unknown"
                      /\ last.result.value.category = "general"
                      /\ last.result.value.urgency = "medium"
                      /\ last.result.value.sentiment = "neutral"

\* the analysis of 'urgent: cannot reset password' threw: the default is returned
\* and recorded
C13_Witness ==
    /\ last # None /\ last.activity = "analyze" /\ last.invoked
    /\ last.params.ticketText = "urgent: cannot reset password"
    /\ last.result.value # performSimpleAnalysis(last.params.ticketText)
    /\ last.result.value.urgency = "medium"
    /\ analysisCache[last.key].category = "general"

\* --------------------------------------------------- claims (routing, II)
SearchFailedAt(e, i) == runs[e].trace[i].activity = "kbSearch" /\ isError(ResultAt(e, i))
\* the call after position i is generateResponse with the raw ticket text as context
GeneratesFromTicketText(e, i) ==
    /\ Len(runs[e].trace) > i
    /\ runs[e].trace[i + 1].activity = "generateResponse"
    /\ runs[e].trace[i + 1].args.context = runs[e].ticketText

Step(e, i) == <<runs[e].trace[i].activity, runs[e].trace[i].args>>
\* the calls an execution made after aiAnalyze
Plan(e) == [i \in 1..(Len(runs[e].trace) - 1) |-> Step(e, i + 1)]
\* content of the first match of the search at position i, or the raw ticket text
BestMatchOrText(e, i) ==
    IF ~isError(ResultAt(e, i)) /\ Len(ResultAt(e, i).value) > 0
    THEN ResultAt(e, i).value[1].content
    ELSE runs[e].ticketText
Critical(e) == Classified(e) /\ Analysis(e).urgency = "critical"

\* C15: an execution on the critical path that returns a Resolution made, after the
\* analysis, exactly the calls notifyTeam('support-alerts'), updateTicket(in-progress),
\* kbSearch(intent, 3), generateResponse(content of the first match, or the ticket
\* text when there is none), in this order, and its status is in-progress.
C15_CriticalPlan ==
    \A e \in Executions :
        (Critical(e) /\ Succeeded(e))
            => /\ Len(Plan(e)) = 4
               /\ Plan(e)[1][1] = "notifyTeam"
               /\ Plan(e)[1][2].channel = "support-alerts"
               /\ Plan(e)[2] = <<"updateTicket", [ticketId |-> runs[e].ticketId,
                                                  status |-> "in-progress"]>>
               /\ Plan(e)[3] = <<"kbSearch", [query |-> Analysis(e).intent, maxResults |-> 3]>>
               /\ Plan(e)[4][1] = "generateResponse"
               /\ Plan(e)[4][2].context = BestMatchOrText(e, 4)
               /\ runs[e].returned.value.status = "in-progress"

\* a critical execution whose search found a match and generated from its content
C15_Witness ==
    /\ Critical(1) /\ Succeeded(1)
    /\ Len(Plan(1)) = 4
    /\ ~isError(ResultAt(1, 4)) /\ Len(ResultAt(1, 4).value) = 2
    /\ Plan(1)[4][2].context = KNOWLEDGE_BASE[1].content
    /\ runs[1].returned.value.status = "in-progress"

\* C16: the first call of the elevated path is kbSearch(intent, 5); when it returns
\* an error the remaining calls are notifyTeam on the escalation channel and
\* updateTicket(in-progress), generateResponse is not called, and the Resolution
\* has status in-progress and the response 'Escalated to support team'.
C16_ElevatedSearchFailed ==
    \A e \in Executions :
        (Elevated(e) /\ Len(Plan(e)) >= 1)
            => /\ Plan(e)[1] = <<"kbSearch", [query |-> Analysis(e).intent, maxResults |-> 5]>>
               /\ (Done(e) /\ isError(ResultAt(e, 2)))
                    => /\ Len(Plan(e)) = 3
                       /\ Plan(e)[2][1] = "notifyTeam"
                       /\ Plan(e)[2][2].channel = "support-team"
                       /\ runs[e].trace[3].idempotencyKey = notifyEscalateKey(runs[e].ticketId)
                       /\ Plan(e)[3] = <<"updateTicket", [ticketId |-> runs[e].ticketId,
                                                          status |-> "in-progress"]>>
                       /\ Succeeded(e)
                            => /\ runs[e].returned.value.status = "in-progress"
                               /\ runs[e].returned.value.response = "Escalated to support team"

C16_Witness ==
    /\ Elevated(1) /\ Succeeded(1)
    /\ Len(Plan(1)) = 3
    /\ isError(ResultAt(1, 2))
    /\ Analysis(1).urgency = "high" /\ Analysis(1).sentiment = "neutral"
    /\ runs[1].returned.value.response = "Escalated to support team"

\* the elevated search returned matches and the first one is above the threshold
HighConfidenceMatch(e) ==
    /\ Elevated(e) /\ Searched(e)
    /\ ~isError(ResultAt(e, 2))
    /\ Len(Matches(e)) > 0
    /\ TopScore(e) > HighConfidence
\* the elevated search returned no match, or a first match not above the threshold
LowConfidenceMatch(e) ==
    /\ Elevated(e) /\ Searched(e)
    /\ ~isError(ResultAt(e, 2))
    /\ Len(Matches(e)) = 0 \/ TopScore(e) <= HighConfidence

\* C17: on the elevated path with a top match above 0.8 the calls after the search
\* are generateResponse(content of the top match) and updateTicket(resolved),
\* notifyTeam is not called, and the Resolution has status resolved.
C17_HighConfidencePlan ==
    \A e \in Executions :
        (HighConfidenceMatch(e) /\ Done(e))
            => /\ Len(Plan(e)) = 3
               /\ Plan(e)[2][1] = "generateResponse"
               /\ Plan(e)[2][2].context = Matches(e)[1].content
               /\ Plan(e)[3] = <<"updateTicket", [ticketId |-> runs[e].ticketId,
                                                  status |-> "resolved"]>>
               /\ CallsOf(e, "notifyTeam") = {}
               /\ Succeeded(e) => runs[e].returned.value.status = "resolved"

C17_Witness ==
    /\ HighConfidenceMatch(1) /\ Succeeded(1)
    /\ TopScore(1) = 9
    /\ Plan(1)[2][2].context = KNOWLEDGE_BASE[1].content
    /\ runs[1].returned.value.status = "resolved"

\* C18: on the elevated path with a successful search that returned no match or a
\* top match not above 0.8 the calls after the search are notifyTeam on the review
\* channel and updateTicket(in-progress), generateResponse is not called, and the
\* Resolution has status in-progress and the response 'Escalated to support team
\* for personalized assistance'.
C18_LowConfidencePlan ==
    \A e \in Executions :
        (LowConfidenceMatch(e) /\ Done(e))
            => /\ Len(Plan(e)) = 3
               /\ Plan(e)[2][1] = "notifyTeam"
               /\ Plan(e)[2][2].channel = "support-team"
               /\ runs[e].trace[3].idempotencyKey = notifyReviewKey(runs[e].ticketId)
               /\ Plan(e)[3] = <<"updateTicket", [ticketId |-> runs[e].ticketId,
                                                  status |-> "in-progress"]>>
               /\ CallsOf(e, "generateResponse") = {}
               /\ Succeeded(e)
                    => /\ runs[e].returned.value.status = "in-progress"
                       /\ runs[e].returned.value.response
                            = "Escalated to support team for personalized assistance"

\* an elevated execution whose search returned no match
C18_Witness ==
    /\ LowConfidenceMatch(1) /\ Succeeded(1)
    /\ Len(Matches(1)) = 0
    /\ Len(Plan(1)) = 3
    /\ runs[1].returned.value.status = "in-progress"

Normal(e) == Classified(e) /\ ~Critical(e) /\ ~Elevated(e)

\* C19: an execution on the normal path makes, after the analysis, exactly the calls
\* kbSearch(intent, 3), generateResponse(content of the first match, or the ticket
\* text when there is none), updateTicket(resolved), in this order, never
\* notifyTeam, and its Resolution has status resolved.
C19_NormalPlan ==
    \A e \in Executions :
        (Normal(e) /\ Done(e))
            => /\ Len(Plan(e)) = 3
               /\ Plan(e)[1] = <<"kbSearch", [query |-> Analysis(e).intent, maxResults |-> 3]>>
               /\ Plan(e)[2][1] = "generateResponse"
               /\ Plan(e)[2][2].context = BestMatchOrText(e, 2)
               /\ Plan(e)[3] = <<"updateTicket", [ticketId |-> runs[e].ticketId,
                                                  status |-> "resolved"]>>
               /\ CallsOf(e, "notifyTeam") = {}
               /\ Succeeded(e) => runs[e].returned.value.status = "resolved"

\* a normal execution whose search found a match
C19_Witness ==
    /\ Normal(1) /\ Succeeded(1)
    /\ Analysis(1).urgency = "medium"
    /\ ~isError(ResultAt(1, 2)) /\ Len(ResultAt(1, 2).value) = 1
    /\ Plan(1)[2][2].context = KNOWLEDGE_BASE[1].content
    /\ runs[1].returned.value.status = "resolved"

\* --------------------------------------------------------- claims (search)
\* position of an entry in the knowledge base
KbIndex(entry) == CHOOSE i \in 1..Len(KNOWLEDGE_BASE) : KNOWLEDGE_BASE[i].id = entry.id
\* non-increasing in similarityScore, equal scores in knowledge-base order
Ranked(entries) ==
    \A i, j \in 1..Len(entries) :
        i < j => \/ entries[i].similarityScore > entries[j].similarityScore
                 \/ /\ entries[i].similarityScore = entries[j].similarityScore
                    /\ KbIndex(entries[i]) < KbIndex(entries[j])

\* C20: the sequence a search computes for a query and a limit has at most limit
\* entries and is in non-increasing order of similarityScore, entries of equal
\* score in the order of the knowledge base.
C20_AtMostLimitAndRanked ==
    (last # None /\ last.activity = "search" /\ last.invoked)
        => /\ Len(last.result.value) <= last.params.maxResults
           /\ Ranked(last.result.value)

\* the score the search gives a knowledge-base entry for a query
ScoreOf(entry, query) ==
    scoreEntry(KNOWLEDGE_BASE[KbIndex(entry)], toLowerCase(Chars(query)),
               splitWhitespace(toLowerCase(Chars(query)))).similarityScore

\* C21: every entry a search returns has a similarityScore between 0 and 1 and not
\* below the threshold of 0.1, and it is the score of that knowledge-base entry for
\* the query: an entry that scores below the threshold is not returned.
C21_ScoresWithinRange ==
    (last # None /\ last.activity = "search")
        => \A i \in 1..Len(last.result.value) :
              LET entry == last.result.value[i]
              IN /\ entry.similarityScore >= 0
                 /\ entry.similarityScore <= ScoreCap
                 /\ entry.similarityScore >= MinimumThreshold
                 /\ last.invoked => entry.similarityScore = ScoreOf(entry, last.params.query)

\* 'feature request' with limit 5: the one article that matches is returned at the
\* cap, the four that score nothing are not
C21_Witness ==
    /\ last # None /\ last.activity = "search" /\ last.invoked
    /\ last.params = [query |-> "feature request", maxResults |-> 5]
    /\ Len(last.result.value) = 1
    /\ last.result.value[1].id = "kb-004"
    /\ last.result.value[1].similarityScore = 10

\* ------------------------------------------------ claims (activities, III)
\* C22: a call of generate never returns an error; what it returns is recorded
\* under the key; a call that ran the generation returns the generated text or,
\* when the generation threw, the fixed fallback acknowledgment; a later call with
\* the key returns what the first one returned.
C22_GenerateNeverFails ==
    (last # None /\ last.activity = "generate")
        => /\ ~isError(last.result)
           /\ last.key \in DOMAIN responseCache
           /\ responseCache[last.key] = last.result.value
           /\ last.invoked
                => \/ /\ JSONparses(last.params.analysis)
                      /\ last.result.value
                           = generateTemplateResponse(last.params.context, last.params.analysis)
                   \/ last.result.value = "Thank you for contacting support. We have received your ticket and will respond within 24 hours."
           /\ ~last.invoked => last.result = First(last).result

\* the generation of the first call threw; the second call with the key returns the
\* recorded fallback
C22_Witness ==
    /\ last # None /\ last.activity = "generate" /\ ~last.invoked
    /\ JSONparses(First(last).params.analysis)
    /\ First(last).result.value
          # generateTemplateResponse(First(last).params.context, First(last).params.analysis)
    /\ last.result.value = "Thank you for contacting support. We have received your ticket and will respond within 24 hours."

\* ------------------------------------------------- claims (cancellation)
\* the calls with the key of the cancelled call that began after it was cancelled
RetriesInFlight == {c \in inFlight : c.id > last.result.calls /\ c.idempotencyKey = last.key}

\* C23: a record is in the update or the notify store only under a key with which a
\* call has completed, so a call cancelled during its awaited send leaves none;
\* and every call with the key that begins after the cancellation, while nothing
\* else has completed, finds no record and sends again.
C23_CancelledCallStoresNothing ==
    /\ \A k \in Keys :
         /\ k \notin DOMAIN first["notify"] => k \notin DOMAIN sentNotifications
         /\ k \notin DOMAIN first["update"] => k \notin DOMAIN processedUpdates
    /\ (last # None /\ isCancelled(last.result))
         => /\ Count(effects["notify"], last.key)
                 = last.result.attempts + Cardinality(RetriesInFlight)
            /\ Cardinality({c \in inFlight : c.id > last.result.calls})
                 = calls - last.result.calls

\* the only call with the key was cancelled, there is no record, and the retry is
\* sending again
C23_Witness ==
    /\ last # None /\ isCancelled(last.result)
    /\ last.result.attempts = 1
    /\ last.key \notin DOMAIN first["notify"]
    /\ last.key \notin DOMAIN sentNotifications
    /\ Cardinality(RetriesInFlight) = 1
    /\ Count(effects["notify"], last.key) = 2

\* ------------------------------------------ claims (the shipped providers)
\* execution e processed this text and its analysis is the shipped classifier's
Shipped(e, ticketText) ==
    /\ runs[e].ticketText = ticketText
    /\ Classified(e)
    /\ Analysis(e) = performSimpleAnalysis(ticketText)
\* what the critical path does for 'urgent: cannot reset password', the match aside
UrgentTicketPlan(e) ==
    /\ Analysis(e).urgency = "critical"
    /\ Analysis(e).category = "authentication"
    /\ Len(Plan(e)) = 4
    /\ Plan(e)[1][1] = "notifyTeam" /\ Plan(e)[1][2].channel = "support-alerts"
    /\ Plan(e)[2] = <<"updateTicket", [ticketId |-> runs[e].ticketId, status |-> "in-progress"]>>
    /\ Plan(e)[3] = <<"kbSearch", [query |-> "reset-password", maxResults |-> 3]>>
    /\ Plan(e)[4][1] = "generateResponse"
    /\ runs[e].returned.value.status = "in-progress"

\* C24: an execution for 'urgent: cannot reset password' that returns a Resolution
\* classified the ticket as critical and authentication, notified 'support-alerts',
\* set in-progress, searched for 'reset-password', got a top match whose content
\* was the context of the generation, and has status in-progress.
C24_UrgentPasswordTicket ==
    \A e \in Executions :
        (Shipped(e, "urgent: cannot reset password") /\ Succeeded(e))
            => /\ UrgentTicketPlan(e)
               /\ Len(ResultAt(e, 4).value) > 0
               /\ Plan(e)[4][2].context = ResultAt(e, 4).value[1].content

\* C25: an execution for 'feature request: dark mode' classifies the ticket as
\* neither critical nor elevated, takes the normal path (search with limit 3,
\* generate, update to resolved) and its Resolution has status resolved.
C25_FeatureRequestTicket ==
    \A e \in Executions :
        Shipped(e, "feature request: dark mode")
            => /\ Normal(e)
               /\ Analysis(e).urgency \notin {"critical", "high"}
               /\ Analysis(e).sentiment # "negative"
               /\ Done(e)
                    => /\ Succeeded(e)
                       /\ Len(Plan(e)) = 3
                       /\ Plan(e)[1] = <<"kbSearch", [query |-> Analysis(e).intent,
                                                      maxResults |-> 3]>>
                       /\ Plan(e)[2][1] = "generateResponse"
                       /\ Plan(e)[3] = <<"updateTicket", [ticketId |-> runs[e].ticketId,
                                                          status |-> "resolved"]>>
                       /\ runs[e].returned.value.status = "resolved"

C25_Witness ==
    /\ Shipped(1, "feature request: dark mode") /\ Succeeded(1)
    /\ ResultAt(1, 4) = Void
    /\ "T-2" \in DOMAIN ticketStatuses /\ ticketStatuses["T-2"] = "resolved"
    /\ runs[1].returned.value.status = "resolved"

\* C26: an execution for 'Feature request: dark mode' classifies the ticket as
\* category feature-request with urgency low, and the search of its normal path
\* returns the article 'Feature request process'.
C26_FeatureRequestFindsArticle ==
    \A e \in Executions :
        (Shipped(e, "Feature request: dark mode") /\ Searched(e))
            => /\ Analysis(e).category = "feature-request"
               /\ Analysis(e).urgency = "low"
               /\ Normal(e)
               /\ \E i \in 1..Len(Matches(e)) : Matches(e)[i].id = "kb-004"

Running(e) == runs[e].pc \notin {"idle", "done"}
\* the calls whose error processTicket returns
FatalCalls == {"aiAnalyze", "updateTicket"}

\* C28 (what is returned): an execution makes at most five activity calls; when it
\* is done it has returned a Resolution or the error value of its last call, and
\* that call is aiAnalyze or updateTicket, never kbSearch or generateResponse.
C28_ReturnsOutcomeOrError ==
    \A e \in Executions :
        /\ Len(runs[e].trace) <= 5
        /\ Done(e)
             => \/ /\ ~isError(runs[e].returned)
                   /\ runs[e].returned.value.status \in {"in-progress", "resolved"}
                \/ /\ isError(runs[e].returned)
                   /\ runs[e].returned = ResultAt(e, Len(runs[e].trace))
                   /\ runs[e].trace[Len(runs[e].trace)].activity \in FatalCalls

\* C28: for every combination of activity results an execution of processTicket
\* that has begun ends, after at most five activity calls, with a Resolution or an
\* error value, and an error of kbSearch or generateResponse is never what it
\* returns.
C28_Terminates ==
    /\ []C28_ReturnsOutcomeOrError
    /\ Running(1) ~> Done(1)

\* an execution in which both the search and the generation failed returned a
\* Resolution
C28_Witness ==
    /\ Succeeded(1)
    /\ Len(runs[1].trace) = 5
    /\ \E i \in CallsOf(1, "kbSearch") : isError(ResultAt(1, i))
    /\ \E i \in CallsOf(1, "generateResponse") : isError(ResultAt(1, i))

\* ------------------------------------------------ claims (routing, III)
\* C29: an execution whose aiAnalyze call returned an error value has made no other
\* call, is done, and has returned that error.
C29_AnalysisErrorIsFatal ==
    \A e \in Executions :
        (Len(runs[e].trace) > 0 /\ isError(ResultAt(e, 1)))
            => /\ Len(runs[e].trace) = 1
               /\ runs[e].trace[1].activity = "aiAnalyze"
               /\ Done(e)
               /\ runs[e].returned = ResultAt(e, 1)

C29_Witness ==
    /\ Done(1) /\ Done(2)
    /\ isError(ResultAt(1, 1)) /\ runs[1].returned = ActivityFailed
    /\ Len(runs[2].trace) = 1 /\ runs[2].returned = ActivityFailed

\* ------------------------------------------------- claims (ticket status)
\* the call that was just made missed the cache
Missed == last'.recorded = None

\* C30 as stated: after an update call getStatus of a ticket is the status of the
\* most recent call for it that missed the cache: a miss sets it, a call with a
\* recorded key leaves every status as it was.
C30_StatusOfLastMiss ==
    [][\A i \in UpdateInputs, k \in UpdateKeys :
          updateCall(i.ticketId, i.status, k)
             => IF Missed
                THEN ticketStatuses' = MapSet(ticketStatuses, i.ticketId, i.status)
                ELSE ticketStatuses' = ticketStatuses]_vars

\* C30: after an update call getStatus of a ticket is the status of the most recent
\* call for it that missed the cache and whose update went through: such a call
\* sets it; a miss whose update failed and a call with a recorded key leave every
\* status as it was.
C30_StatusOfLastSuccessfulMiss ==
    [][\A i \in UpdateInputs, k \in UpdateKeys :
          updateCall(i.ticketId, i.status, k)
             => IF Missed /\ ~isError(last'.result)
                THEN ticketStatuses' = MapSet(ticketStatuses, i.ticketId, i.status)
                ELSE ticketStatuses' = ticketStatuses]_vars

\* in-progress was recorded under one key and resolved under another; the replay of
\* the in-progress update has returned and the ticket is still resolved
C30_Witness ==
    /\ last # None /\ last.activity = "update" /\ ~last.invoked
    /\ last.params = [ticketId |-> "T1", status |-> "in-progress"]
    /\ last.result = Void
    /\ \E k \in DOMAIN processedUpdates :
         processedUpdates[k] = [ticketId |-> "T1", status |-> "resolved"]
    /\ getStatus("T1") = "resolved"

\* ------------------------------------------ claims (the composed system)
\* C31: when an execution has returned a Resolution with a status, the ticket store
\* holds that status for the ticket.
C31_OutcomeStatusIsStored ==
    \A e \in Executions :
        Succeeded(e) => getStatus(runs[e].ticketId) = runs[e].returned.value.status

\* the calls made with a key, by all executions, that returned an error of the codes
FailedWith(idempotencyKey, codes) ==
    {<<e, i>> \in Executions \X (1..5) :
        /\ i \in Positions(e)
        /\ runs[e].trace[i].idempotencyKey = idempotencyKey
        /\ ErrorAt(e, i, codes)}
Recorded(store, idempotencyKey) == IF idempotencyKey \in DOMAIN store THEN 1 ELSE 0
\* execution e sent the alert and then failed to update the ticket
AlertedThenFailed(e) ==
    /\ Critical(e) /\ Done(e)
    /\ Len(runs[e].trace) = 3
    /\ ResultAt(e, 2) = Void
    /\ ErrorAt(e, 3, {"UPDATE_ERROR"})
    /\ runs[e].returned = ResultAt(e, 3)

\* C32: the alert of a ticket is sent once for every failed send and once more when
\* it is recorded, and never after that; the update is attempted once for every
\* failed attempt and once more when it is recorded.  So after an execution that
\* sent the alert and then failed to update the ticket, a replay gets void from
\* notifyTeam without a second send, and its updateTicket call runs the update again.
C32_AlertSentOnce ==
    /\ \A t \in SystemTickets :
         /\ Count(effects["notify"], notifyCriticalKey(t.ticketId))
              = Cardinality(FailedWith(notifyCriticalKey(t.ticketId), {"NOTIFICATION_ERROR"}))
                + Recorded(sentNotifications, notifyCriticalKey(t.ticketId))
         /\ Count(effects["update"], updateProgressKey(t.ticketId))
              = Cardinality(FailedWith(updateProgressKey(t.ticketId), {"UPDATE_ERROR"}))
                + Recorded(processedUpdates, updateProgressKey(t.ticketId))
    /\ \A e1, e2 \in Executions :
         (e1 < e2 /\ AlertedThenFailed(e1) /\ SameArguments(e1, e2))
            => /\ Count(effects["notify"], notifyCriticalKey(runs[e1].ticketId))
                    = 1 + Cardinality(FailedWith(notifyCriticalKey(runs[e1].ticketId),
                                                 {"NOTIFICATION_ERROR"}))
               /\ Len(runs[e2].trace) >= 2
                    => /\ runs[e2].trace[2].idempotencyKey = notifyCriticalKey(runs[e1].ticketId)
                       /\ ResultAt(e2, 2) = Void
               /\ Len(runs[e2].trace) >= 3
                    => /\ runs[e2].trace[3].idempotencyKey = updateProgressKey(runs[e1].ticketId)
                       /\ ~ErrorAt(e2, 3, MismatchCodes)

\* the first execution sent the alert and failed to update; the replay did not send
\* it again, updated the ticket and returned a Resolution
C32_Witness ==
    /\ AlertedThenFailed(1)
    /\ Succeeded(2) /\ SameArguments(1, 2)
    /\ ResultAt(2, 2) = Void /\ ResultAt(2, 3) = Void
    /\ Count(effects["notify"], notifyCriticalKey(runs[1].ticketId)) = 1
    /\ Count(effects["update"], updateProgressKey(runs[1].ticketId)) = 2

\* ------------------------------------------ claims (edited tickets)
\* execution e2 ran for the ticket of the earlier execution e1 with another text
EditedReplay(e1, e2) ==
    /\ e1 < e2
    /\ Done(e1)
    /\ runs[e2].ticketId = runs[e1].ticketId
    /\ runs[e2].ticketText # runs[e1].ticketText

\* C33: an execution for the ticket of the first completed execution, with another
\* text, gets the classification of the first, makes the calls of the same path,
\* gets IDEMPOTENCY_MISMATCH from no call, and returns what the first returned.
C33_FirstExecutionFixesResult ==
    \A e \in Executions :
        EditedReplay(1, e)
            => /\ Classified(e) => Analysis(e) = Analysis(1)
               /\ \A i \in Positions(e) : ~ErrorAt(e, i, MismatchCodes)
               /\ Done(e) => /\ Outcome(e) = Outcome(1)
                             /\ [i \in Positions(e) |-> runs[e].trace[i].idempotencyKey]
                                  = [i \in Positions(1) |-> runs[1].trace[i].idempotencyKey]

====
